---- MODULE Spec2Model ----
(***************************************************************************)
(* Rotating-maze Pac-Man: the problem model (pacman_problem.py), the       *)
(* heuristic (strategies.py), the A* search (search.py) and the game loop  *)
(* that replays a plan (game.py).                                          *)
(*                                                                         *)
(* Coordinates are pairs <<x, y>>, x to the right and y downward, 0-based  *)
(* as in the source.  Python's None is the empty tuple <<>>.               *)
(***************************************************************************)
EXTENDS Integers, Sequences, FiniteSets, TLC

VARIABLES
    layout_file,    \* the rows of the layout file the PacmanProblem is constructed from
    problem,        \* the PacmanProblem built from the layout (its parsed fields)
    current_state,  \* the PacmanSearchState being expanded / played
    steps,          \* elapsed moves (the g-cost handed to get_successors)
    h_mark,         \* pacman_heuristic of an earlier state minus the moves made since
    search_pc,      \* a_star_search: "idle" (not called), "loop" (in the while loop), "done"
    frontier,       \* the heap: entries <<f_cost, tie_breaker, node>>, node an index of nodes
    explored,       \* the set of expanded states
    tie_breaker,    \* the insertion counter
    nodes,          \* the Node objects pushed so far: [state, parent, action, g_cost]
    returned,       \* what a_star_search returned: None before, then <<path, cost>>
    _heuristic_cache, \* strategies._heuristic_cache: key |-> value, kept between searches
    first_return,   \* what the first of two searches returned
    game_state,     \* PacmanGame: "MENU", "MANUAL", "AUTO_SEARCH" or "AUTO_ANIMATE"
    solution_path,  \* the actions still to replay
    solution_cost,
    _searching,     \* the flag that a search was started and not yet collected
    _search_result, \* the slot the worker writes: None, then <<path, cost>>
    _search_thread, \* None or "Thread"
    printed,        \* the lines the last handler of the game printed
    _ghost_pos_cache,  \* PacmanProblem: the keys (g_cost, rotation, broken walls) memoised
    _ghost_seed_cache, \* PacmanProblem: the keys (g0, rotation, broken walls) of memoised seeds
    rot_in,         \* input of the rotation functions: [pos, k, width, height]
    rot_out         \* [fwd, back]: _transform_pos(pos), then _inverse_transform_pos of it

searchVars == <<search_pc, frontier, explored, tie_breaker, nodes, returned>>
playVars == <<current_state, steps, h_mark>>
gameVars == <<game_state, solution_path, solution_cost, _searching, _search_result,
              _search_thread, printed>>
rotVars == <<rot_in, rot_out>>

cacheVars == <<_heuristic_cache, first_return>>

ghostCacheVars == <<_ghost_pos_cache, _ghost_seed_cache>>

vars == <<layout_file, problem, ghostCacheVars, playVars, searchVars, cacheVars, gameVars, rotVars>>

None == <<>>

\* None where a list of action labels is expected: no label is "None"
NoPath == <<"None">>

\* the parent of the root Node
NoParent == 0

----
(* Bounds of the model *)

\* largest elapsed-step count the exploration of get_successors goes to;
\* above ROTATION_PERIOD, so that moves cross a rotation boundary
MaxSteps == 32

\* largest base width / height the rotation functions are applied to
MaxDim == 4

\* number of rotation windows the ghost seeds are followed through
MaxWindows == 4

----
(* Program constants *)

ROTATION_PERIOD == 30
ROTATION_CYCLE == ROTATION_PERIOD * 4
pie_duration == 5

----
(* Layout files the program is started on.  A row is a tuple of characters. *)

\* G.%OP : a ghost corridor closed by a wall, a pie right behind the wall
LayoutCorridor ==
    << <<"G", ".", "%", "O", "P">> >>

\*  " P O"
\*  ".%%."  : two foods joined by a long way round or by a short way through walls
LayoutDetour ==
    << <<" ", "P", " ", "O">>,
       <<".", "%", "%", ".">> >>

\*  "T.E"
\*  "P%G"
\*  "TO "  : explicit teleports, an exit, a ghost and a pie
LayoutTeleport ==
    << <<"T", ".", "E">>,
       <<"P", "%", "G">>,
       <<"T", "O", " ">> >>

\* "P %." : the food is walled off, the agent can only pace
LayoutWalledOff ==
    << <<"P", " ", "%", ".">> >>

\*  "%%%%%"
\*  "%P .%"
\*  "%%%%%"
\*  "%%%%%"
\*  "%%%%%"  : a wall frame around a straight corridor, no teleport markers
LayoutFramed ==
    << <<"%", "%", "%", "%", "%">>,
       <<"%", "P", " ", ".", "%">>,
       <<"%", "%", "%", "%", "%">>,
       <<"%", "%", "%", "%", "%">>,
       <<"%", "%", "%", "%", "%">> >>

Layouts == <<LayoutCorridor, LayoutDetour, LayoutTeleport, LayoutWalledOff, LayoutFramed>>

----
(* pacman_problem.py: rotation of coordinates *)

\* _transform_pos whose half turn mirrors the columns only
_transform_pos_mirrored(pos, rotation_index, width, height) ==
    LET x == pos[1]
        y == pos[2]
        r == rotation_index % 4
    IN  IF r = 0 THEN <<x, y>>
        ELSE IF r = 1 THEN <<y, width - 1 - x>>
        ELSE IF r = 2 THEN <<width - 1 - x, y>>
        ELSE <<height - 1 - y, x>>

_transform_pos(pos, rotation_index, width, height) ==
    LET x == pos[1]
        y == pos[2]
        r == rotation_index % 4
    IN  IF r = 0 THEN <<x, y>>
        ELSE IF r = 1 THEN <<y, width - 1 - x>>
        ELSE IF r = 2 THEN <<width - 1 - x, height - 1 - y>>
        ELSE <<height - 1 - y, x>>

\* _inverse_transform_pos with the two dimensions mixed up for a quarter turn
_inverse_transform_pos_mixed(pos, rotation_index, width, height) ==
    LET r == rotation_index % 4
        x == pos[1]
        y == pos[2]
    IN  IF r = 0 THEN <<x, y>>
        ELSE IF r = 1 THEN <<height - 1 - y, x>>
        ELSE IF r = 2 THEN <<width - 1 - x, height - 1 - y>>
        ELSE <<y, width - 1 - x>>

_inverse_transform_pos(pos, rotation_index, width, height) ==
    LET r == rotation_index % 4
        x == pos[1]
        y == pos[2]
    IN  IF r = 0 THEN <<x, y>>
        ELSE IF r = 1 THEN <<width - 1 - y, x>>
        ELSE IF r = 2 THEN <<width - 1 - x, height - 1 - y>>
        ELSE <<y, height - 1 - x>>

_rotate_points(points, rotation_index, width, height) ==
    { _transform_pos(p, rotation_index, width, height) : p \in points }

----
(* pacman_problem.py: PacmanProblem.__init__ and _parse_layout *)

\* the tiles of the grid that hold character ch
TilesOf(layout_text, ch) ==
    { <<x, y>> \in (0 .. Len(layout_text[1]) - 1) \X (0 .. Len(layout_text) - 1) :
        layout_text[y + 1][x + 1] = ch }

\* the scan is row by row, left to right: the last tile scanned wins
ScanIndex(pos, width) == pos[2] * width + pos[1]

LastScanned(tiles, width) ==
    IF tiles = {} THEN None
    ELSE CHOOSE p \in tiles : \A q \in tiles : ScanIndex(q, width) <= ScanIndex(p, width)

RECURSIVE InScanOrder(_, _)
InScanOrder(tiles, width) ==
    IF tiles = {} THEN <<>>
    ELSE LET p == LastScanned(tiles, width)
         IN  Append(InScanOrder(tiles \ {p}, width), p)

\* _parse_layout without the teleports fallback
FallbackTeleports_none(width, height, walls) == {}

\* teleports fallback: the inner corners just inside the outer wall frame
FallbackTeleports(width, height, walls) ==
    { corner \in { <<1, 1>>, <<width - 2, 1>>, <<1, height - 2>>, <<width - 2, height - 2>> } :
        /\ 0 <= corner[1] /\ corner[1] < width
        /\ 0 <= corner[2] /\ corner[2] < height
        /\ corner \notin walls }

\* _parse_layout without the check of lines 100-101
_parse_layout_unchecked(layout_text) ==
    LET width == Len(layout_text[1])
        height == Len(layout_text)
        walls == TilesOf(layout_text, "%")
        marked == TilesOf(layout_text, "T")
        teleports == IF marked = {} THEN FallbackTeleports(width, height, walls) ELSE marked
        exit == LastScanned(TilesOf(layout_text, "E"), width)
    IN  IF FALSE THEN [error |-> "ValueError"]
        ELSE [ width |-> width,
               height |-> height,
               base_walls |-> walls,
               initial_food |-> TilesOf(layout_text, "."),
               initial_pies |-> TilesOf(layout_text, "O"),
               teleports_base |-> teleports,
               ghosts |-> InScanOrder(TilesOf(layout_text, "G"), width),
               exit |-> exit,
               initial_pacman_pos |-> LastScanned(TilesOf(layout_text, "P"), width),
               rotated_dimensions |-> << <<width, height>>, <<height, width>>,
                                         <<width, height>>, <<height, width>> >>,
               rotated_walls |-> [r \in 1 .. 4 |-> _rotate_points(walls, r - 1, width, height)],
               rotated_teleports |-> [r \in 1 .. 4 |-> _rotate_points(teleports, r - 1, width, height)],
               rotated_exit |-> [r \in 1 .. 4 |->
                   IF exit = None THEN None ELSE _transform_pos(exit, r - 1, width, height)] ]

_parse_layout(layout_text) ==
    LET width == Len(layout_text[1])
        height == Len(layout_text)
        walls == TilesOf(layout_text, "%")
        marked == TilesOf(layout_text, "T")
        teleports == IF marked = {} THEN FallbackTeleports(width, height, walls) ELSE marked
        exit == LastScanned(TilesOf(layout_text, "E"), width)
    IN  IF TilesOf(layout_text, "P") = {} THEN [error |-> "ValueError"]
        ELSE [ width |-> width,
               height |-> height,
               base_walls |-> walls,
               initial_food |-> TilesOf(layout_text, "."),
               initial_pies |-> TilesOf(layout_text, "O"),
               teleports_base |-> teleports,
               ghosts |-> InScanOrder(TilesOf(layout_text, "G"), width),
               exit |-> exit,
               initial_pacman_pos |-> LastScanned(TilesOf(layout_text, "P"), width),
               rotated_dimensions |-> << <<width, height>>, <<height, width>>,
                                         <<width, height>>, <<height, width>> >>,
               rotated_walls |-> [r \in 1 .. 4 |-> _rotate_points(walls, r - 1, width, height)],
               rotated_teleports |-> [r \in 1 .. 4 |-> _rotate_points(teleports, r - 1, width, height)],
               rotated_exit |-> [r \in 1 .. 4 |->
                   IF exit = None THEN None ELSE _transform_pos(exit, r - 1, width, height)] ]

----
(* pacman_problem.py: helpers of the transition engine *)

_current_rotation(step_mod_cycle) == (step_mod_cycle \div ROTATION_PERIOD) % 4

\* _rotate_state_components turning the position and leaving food and pies
\* in the old frame
_rotate_state_components_pos_only(pos, food, pies, from_rotation, to_rotation) ==
    IF from_rotation = to_rotation THEN <<pos, food, pies>>
    ELSE <<_transform_pos(
               _inverse_transform_pos(pos, from_rotation, problem.width, problem.height),
               to_rotation, problem.width, problem.height),
           food, pies>>

\* _rotate_state_components turning food and pies and leaving the position
\* in the old frame
_rotate_state_components_pos_kept(pos, food, pies, from_rotation, to_rotation) ==
    IF from_rotation = to_rotation THEN <<pos, food, pies>>
    ELSE LET Re(c) == _transform_pos(
                          _inverse_transform_pos(c, from_rotation, problem.width, problem.height),
                          to_rotation, problem.width, problem.height)
         IN  <<pos, {Re(f) : f \in food}, {Re(p) : p \in pies}>>

_rotate_state_components(pos, food, pies, from_rotation, to_rotation) ==
    IF from_rotation = to_rotation THEN <<pos, food, pies>>
    ELSE LET Re(c) == _transform_pos(
                          _inverse_transform_pos(c, from_rotation, problem.width, problem.height),
                          to_rotation, problem.width, problem.height)
         IN  <<Re(pos), {Re(f) : f \in food}, {Re(p) : p \in pies}>>

_effective_walls(rotation, broken_walls_base) ==
    IF broken_walls_base = {} THEN problem.rotated_walls[rotation + 1]
    ELSE problem.rotated_walls[rotation + 1]
             \ { _transform_pos(b, rotation, problem.width, problem.height) : b \in broken_walls_base }

\* the bounce without the reflection of line 251: the ghost jumps back to L
Advance_sawtooth(seed, s, walls_rot, width_rot, height_rot) ==
    LET sx == seed[1]
        sy == seed[2]
        Open(x) == <<x, sy>> \notin walls_rot
        L == CHOOSE l \in 0 .. sx :
                /\ \A x \in l .. sx - 1 : Open(x)
                /\ (l = 0 \/ ~Open(l - 1))
        R == CHOOSE r \in sx .. width_rot - 1 :
                /\ \A x \in sx + 1 .. r : Open(x)
                /\ (r = width_rot - 1 \/ ~Open(r + 1))
        N == R - L + 1
        period == (N - 1) * 2
        offset == sx - L
        delta == (offset + s) % period
        delta_ref == delta % N
    IN  IF \/ ~(0 <= sx /\ sx < width_rot /\ 0 <= sy /\ sy < height_rot)
           \/ <<sx, sy>> \in walls_rot
        THEN <<sx, sy>>
        ELSE IF N <= 1 THEN <<sx, sy>>
        ELSE <<L + delta_ref, sy>>

\* the bounce with the whole row taken for the corridor, walls or not
Advance_unwalled(seed, s, walls_rot, width_rot, height_rot) ==
    LET period == (width_rot - 1) * 2
        delta == (seed[1] + s) % period
    IN  IF width_rot <= 1 THEN seed
        ELSE <<IF delta <= width_rot - 1 THEN delta ELSE period - delta, seed[2]>>

\* lines 234-253: s steps of the bounce in the corridor around one seed
Advance(seed, s, walls_rot, width_rot, height_rot) ==
    LET sx == seed[1]
        sy == seed[2]
        Open(x) == <<x, sy>> \notin walls_rot
        L == CHOOSE l \in 0 .. sx :
                /\ \A x \in l .. sx - 1 : Open(x)
                /\ (l = 0 \/ ~Open(l - 1))
        R == CHOOSE r \in sx .. width_rot - 1 :
                /\ \A x \in sx + 1 .. r : Open(x)
                /\ (r = width_rot - 1 \/ ~Open(r + 1))
        N == R - L + 1
        period == (N - 1) * 2
        offset == sx - L
        delta == (offset + s) % period
        delta_ref == IF delta <= N - 1 THEN delta ELSE period - delta
    IN  IF \/ ~(0 <= sx /\ sx < width_rot /\ 0 <= sy /\ sy < height_rot)
           \/ <<sx, sy>> \in walls_rot
        THEN <<sx, sy>>
        ELSE IF N <= 1 THEN <<sx, sy>>
        ELSE <<L + delta_ref, sy>>

\* lines 229-253: the positions s steps after the seeds of the window
PositionsFrom(seeds, s, walls_rot, dimensions) ==
    IF s = 0 THEN seeds
    ELSE [i \in 1 .. Len(seeds) |-> Advance(seeds[i], s, walls_rot, dimensions[1], dimensions[2])]

\* the seeds taken over from the previous window without lines 223-225
SeedsFrom_kept(prev_positions, prev_rot, rotation) ==
    prev_positions

\* lines 220-226: the positions at the end of the previous window, re-expressed
SeedsFrom(prev_positions, prev_rot, rotation) ==
    [i \in 1 .. Len(prev_positions) |->
        _transform_pos(
            _inverse_transform_pos(prev_positions[i], prev_rot, problem.width, problem.height),
            rotation, problem.width, problem.height)]

\* The two caches of the source memoise this function and its seeds.
RECURSIVE _ghost_positions_continuous(_, _, _)
_ghost_positions_continuous(g_cost, rotation, broken_walls_base) ==
    IF Len(problem.ghosts) = 0 THEN <<>>
    ELSE PositionsFrom(
             IF g_cost - (g_cost % ROTATION_PERIOD) = 0
             THEN [i \in 1 .. Len(problem.ghosts) |->
                      _transform_pos(problem.ghosts[i], rotation, problem.width, problem.height)]
             ELSE SeedsFrom(
                      _ghost_positions_continuous(g_cost - (g_cost % ROTATION_PERIOD) - 1,
                                                  (rotation - 1) % 4, broken_walls_base),
                      (rotation - 1) % 4, rotation),
             g_cost % ROTATION_PERIOD,
             _effective_walls(rotation, broken_walls_base),
             problem.rotated_dimensions[rotation + 1])

\* the elements of a list, as Python's set(...) of it
ListSet(list) == { list[i] : i \in 1 .. Len(list) }

\* the pairs of a swap test that looks one tile past the ghost's next tile
ZipSet_through(a, b) ==
    { <<<<2 * b[i][1] - a[i][1], 2 * b[i][2] - a[i][2]>>, b[i]>> : i \in 1 .. Len(a) }

\* set(zip(a, b))
ZipSet(a, b) == { <<a[i], b[i]>> : i \in 1 .. Len(a) }

----
(* pacman_problem.py: the API of the transition engine *)

get_initial_state ==
    [ pos |-> problem.initial_pacman_pos,
      food_left |-> problem.initial_food,
      pies_left |-> problem.initial_pies,
      pie_timer |-> 0,
      step_mod_cycle |-> 0,
      broken_walls |-> {} ]

\* is_goal comparing with the exit of the base frame in every rotation
is_goal_base_exit(state) ==
    IF state.food_left # {} THEN FALSE
    ELSE IF problem.exit = None THEN TRUE
    ELSE state.pos = problem.rotated_exit[1]

is_goal(state) ==
    IF state.food_left # {} THEN FALSE
    ELSE IF problem.exit = None THEN TRUE
    ELSE state.pos = problem.rotated_exit[_current_rotation(state.step_mod_cycle) + 1]

\* max(0, x) without the floor
Max_unfloored(a, b) == b

Max(a, b) == IF a >= b THEN a ELSE b

actions == << <<"North", <<0, -1>> >>, <<"South", <<0, 1>> >>,
              <<"West", <<-1, 0>> >>, <<"East", <<1, 0>> >> >>

\* the order in which a set of coordinates is iterated: fixed for a given set
RECURSIVE IterationOrder(_)
IterationOrder(S) ==
    IF S = {} THEN <<>>
    ELSE LET first == CHOOSE p \in S : \A q \in S :
                          p[1] < q[1] \/ (p[1] = q[1] /\ p[2] <= q[2])
         IN  <<first>> \o IterationOrder(S \ {first})

\* the label of a teleport action: f"Teleport to {target}"
TeleportLabel(target) == "Teleport to " \o ToString(target)

\* the nested rotate_after_steps of get_successors; it reads the enclosing
\* call's current rotation, next g-cost and next ghost positions
\* rotate_after_steps without lines 318-321: nothing is re-expressed
rotate_after_steps_unturned(current_rotation, next_g_cost, ghost_positions_next, pos, food, pies, next_step_mod, broken_walls_base) ==
    LET next_rotation == _current_rotation(next_step_mod)
        rotated == <<pos, food, pies>>
    IN  <<next_rotation, rotated[1], rotated[2], rotated[3],
          IF next_rotation = current_rotation
          THEN ListSet(ghost_positions_next)
          ELSE ListSet(_ghost_positions_continuous(next_g_cost, next_rotation, broken_walls_base))>>

rotate_after_steps(current_rotation, next_g_cost, ghost_positions_next, pos, food, pies, next_step_mod, broken_walls_base) ==
    LET next_rotation == _current_rotation(next_step_mod)
        rotated == IF next_rotation # current_rotation
                   THEN _rotate_state_components(pos, food, pies, current_rotation, next_rotation)
                   ELSE <<pos, food, pies>>
    IN  <<next_rotation, rotated[1], rotated[2], rotated[3],
          IF next_rotation = current_rotation
          THEN ListSet(ghost_positions_next)
          ELSE ListSet(_ghost_positions_continuous(next_g_cost, next_rotation, broken_walls_base))>>

\* lines 365-380 and 405-420: the last ghost check and the successor appended
Appended(label, ras, pie_timer, next_step_mod, next_broken) ==
    IF ras[2] \in ras[5] THEN <<>>
    ELSE << <<label, [ pos |-> ras[2],
                       food_left |-> ras[3],
                       pies_left |-> ras[4],
                       pie_timer |-> pie_timer,
                       step_mod_cycle |-> next_step_mod,
                       broken_walls |-> next_broken ]>> >>

\* line 361 without the record of the wall the move entered
next_broken_unrecorded(broken_walls, broke_wall_base) == broken_walls

\* line 361 keeping the newly broken wall only
next_broken_replaced(broken_walls, broke_wall_base) ==
    IF broke_wall_base = None THEN broken_walls
    ELSE {broke_wall_base}

\* line 361: the broken walls of the successor; broke_wall_base is None
\* unless the move entered a wall
next_broken(broken_walls, broke_wall_base) ==
    IF broke_wall_base = None THEN broken_walls
    ELSE broken_walls \cup {broke_wall_base}

\* one pass of the loop over the four directions: <<>> when the move is
\* rejected, else the one (action, state) pair it appends
DirectionalSuccessor(current_state_, current_g_cost, ghost_positions_current, ghost_positions_next, name, d) ==
    LET current_rotation == _current_rotation(current_state_.step_mod_cycle)
        width_rot == problem.rotated_dimensions[current_rotation + 1][1]
        height_rot == problem.rotated_dimensions[current_rotation + 1][2]
        current_walls == _effective_walls(current_rotation, current_state_.broken_walls)
        ghost_swaps == ZipSet(ghost_positions_current, ghost_positions_next)
        next_step_mod == (current_state_.step_mod_cycle + 1) % ROTATION_CYCLE
        next_pos == <<current_state_.pos[1] + d[1], current_state_.pos[2] + d[2]>>
        broke_wall_base ==
            IF next_pos \in current_walls
            THEN _inverse_transform_pos(next_pos, current_rotation, problem.width, problem.height)
            ELSE None
        eats_pie == next_pos \in current_state_.pies_left
        pie_timer == IF eats_pie THEN pie_duration ELSE Max(0, current_state_.pie_timer - 1)
        next_pies == IF eats_pie THEN current_state_.pies_left \ {next_pos}
                     ELSE current_state_.pies_left
        next_food == current_state_.food_left \ {next_pos}
        next_broken_ == next_broken(current_state_.broken_walls, broke_wall_base)
    IN  IF ~(0 <= next_pos[1] /\ next_pos[1] < width_rot /\ 0 <= next_pos[2] /\ next_pos[2] < height_rot)
        THEN <<>>
        ELSE IF next_pos \in current_walls /\ current_state_.pie_timer <= 0 THEN <<>>
        ELSE IF next_pos \in ListSet(ghost_positions_current)
                \/ next_pos \in ListSet(ghost_positions_next) THEN <<>>
        ELSE IF <<next_pos, current_state_.pos>> \in ghost_swaps THEN <<>>
        ELSE Appended(name,
                      rotate_after_steps(current_rotation, current_g_cost + 1, ghost_positions_next,
                                         next_pos, next_food, next_pies, next_step_mod, next_broken_),
                      pie_timer, next_step_mod, next_broken_)

\* a teleport that hands on no broken wall (lines 405 and 418)
TeleportSuccessor_mended(current_state_, current_g_cost, ghost_positions_current, ghost_positions_next, target) ==
    LET current_rotation == _current_rotation(current_state_.step_mod_cycle)
        ghost_swaps == ZipSet(ghost_positions_current, ghost_positions_next)
        next_step_mod == (current_state_.step_mod_cycle + 1) % ROTATION_CYCLE
        eats_pie == target \in current_state_.pies_left
        pie_timer == IF eats_pie THEN pie_duration ELSE Max(0, current_state_.pie_timer - 1)
        next_pies == IF eats_pie THEN current_state_.pies_left \ {target}
                     ELSE current_state_.pies_left
        next_food == current_state_.food_left \ {target}
    IN  IF \/ target = current_state_.pos
           \/ target \in ListSet(ghost_positions_current)
           \/ target \in ListSet(ghost_positions_next) THEN <<>>
        ELSE IF <<target, current_state_.pos>> \in ghost_swaps THEN <<>>
        ELSE Appended(TeleportLabel(target),
                      rotate_after_steps(current_rotation, current_g_cost + 1, ghost_positions_next,
                                         target, next_food, next_pies, next_step_mod,
                                         {}),
                      pie_timer, next_step_mod, {})

\* one pass of the loop over the teleport tiles of the current rotation
TeleportSuccessor(current_state_, current_g_cost, ghost_positions_current, ghost_positions_next, target) ==
    LET current_rotation == _current_rotation(current_state_.step_mod_cycle)
        ghost_swaps == ZipSet(ghost_positions_current, ghost_positions_next)
        next_step_mod == (current_state_.step_mod_cycle + 1) % ROTATION_CYCLE
        eats_pie == target \in current_state_.pies_left
        pie_timer == IF eats_pie THEN pie_duration ELSE Max(0, current_state_.pie_timer - 1)
        next_pies == IF eats_pie THEN current_state_.pies_left \ {target}
                     ELSE current_state_.pies_left
        next_food == current_state_.food_left \ {target}
    IN  IF \/ target = current_state_.pos
           \/ target \in ListSet(ghost_positions_current)
           \/ target \in ListSet(ghost_positions_next) THEN <<>>
        ELSE IF <<target, current_state_.pos>> \in ghost_swaps THEN <<>>
        ELSE Appended(TeleportLabel(target),
                      rotate_after_steps(current_rotation, current_g_cost + 1, ghost_positions_next,
                                         target, next_food, next_pies, next_step_mod,
                                         current_state_.broken_walls),
                      pie_timer, next_step_mod, current_state_.broken_walls)

RECURSIVE Concat(_)
Concat(lists) ==
    IF Len(lists) = 0 THEN <<>> ELSE Head(lists) \o Concat(Tail(lists))

\* lines 331-380: the loop over the four directions
DirectionalLoop(current_state_, current_g_cost, ghost_positions_current, ghost_positions_next) ==
    Concat([i \in 1 .. Len(actions) |->
               DirectionalSuccessor(current_state_, current_g_cost, ghost_positions_current,
                                    ghost_positions_next, actions[i][1], actions[i][2])])

\* the loop over the teleport tiles entered from any tile (line 384 left out)
TeleportLoop_anywhere(current_state_, current_g_cost, ghost_positions_current, ghost_positions_next, current_teleports) ==
    Concat([i \in 1 .. Cardinality(current_teleports) |->
               TeleportSuccessor(current_state_, current_g_cost, ghost_positions_current,
                                 ghost_positions_next, IterationOrder(current_teleports)[i])])

\* lines 384-420: the loop over the teleport tiles
TeleportLoop(current_state_, current_g_cost, ghost_positions_current, ghost_positions_next, current_teleports) ==
    IF current_state_.pos \in current_teleports
    THEN Concat([i \in 1 .. Cardinality(current_teleports) |->
                    TeleportSuccessor(current_state_, current_g_cost, ghost_positions_current,
                                      ghost_positions_next, IterationOrder(current_teleports)[i])])
    ELSE <<>>

\* lines 292-297: the ghost positions at the current and at the next g-cost,
\* both in the current rotation and under the current broken walls
GhostsAt(current_state_, g_cost) ==
    _ghost_positions_continuous(g_cost, _current_rotation(current_state_.step_mod_cycle),
                                current_state_.broken_walls)

DirectionalSuccessors(current_state_, current_g_cost) ==
    DirectionalLoop(current_state_, current_g_cost,
                    GhostsAt(current_state_, current_g_cost),
                    GhostsAt(current_state_, current_g_cost + 1))

TeleportSuccessors(current_state_, current_g_cost) ==
    TeleportLoop(current_state_, current_g_cost,
                 GhostsAt(current_state_, current_g_cost),
                 GhostsAt(current_state_, current_g_cost + 1),
                 problem.rotated_teleports[_current_rotation(current_state_.step_mod_cycle) + 1])

get_successors(current_state_, current_g_cost) ==
    DirectionalSuccessors(current_state_, current_g_cost)
        \o TeleportSuccessors(current_state_, current_g_cost)

----
(* pacman_problem.py: the two memoisation caches of the problem object.    *)
(* A cache is followed by the set of its keys; the value stored under a    *)
(* key is what _ghost_positions_continuous computes for it.                *)

\* lines 197-256: the caches <<_ghost_pos_cache, _ghost_seed_cache>> after
\* one call of _ghost_positions_continuous
RECURSIVE GhostCachesAfter(_, _, _, _)
GhostCachesAfter(caches, g_cost, rotation, broken_walls_base) ==
    LET cache_key == <<g_cost, rotation, broken_walls_base>>
        g0 == g_cost - (g_cost % ROTATION_PERIOD)
        seeds_key == <<g0, rotation, broken_walls_base>>
        seeded == IF seeds_key \in caches[2] THEN caches
                  ELSE IF g0 = 0 THEN <<caches[1], caches[2] \cup {seeds_key}>>
                  ELSE LET prev == GhostCachesAfter(caches, g0 - 1, (rotation - 1) % 4,
                                                    broken_walls_base)
                       IN  <<prev[1], prev[2] \cup {seeds_key}>>
    IN  IF Len(problem.ghosts) = 0 THEN caches
        ELSE IF cache_key \in caches[1] THEN caches
        ELSE <<seeded[1] \cup {cache_key}, seeded[2]>>

\* the caches after the calls with the keys of a list, in turn
RECURSIVE GhostCachesAfterAll(_, _)
GhostCachesAfterAll(caches, keys) ==
    IF Len(keys) = 0 THEN caches
    ELSE GhostCachesAfterAll(GhostCachesAfter(caches, Head(keys)[1], Head(keys)[2], Head(keys)[3]),
                             Tail(keys))

\* lines 318-326: the call rotate_after_steps makes when the move ends a
\* rotation window, as a list of at most one key
RotateCall(current_rotation, next_g_cost, next_step_mod, broken_walls_base) ==
    IF _current_rotation(next_step_mod) = current_rotation THEN <<>>
    ELSE << <<next_g_cost, _current_rotation(next_step_mod), broken_walls_base>> >>

\* lines 331-362: the call made for one direction, none when the move is
\* rejected before rotate_after_steps
DirectionalCall(current_state_, current_g_cost, ghost_positions_current, ghost_positions_next, d) ==
    LET current_rotation == _current_rotation(current_state_.step_mod_cycle)
        width_rot == problem.rotated_dimensions[current_rotation + 1][1]
        height_rot == problem.rotated_dimensions[current_rotation + 1][2]
        current_walls == _effective_walls(current_rotation, current_state_.broken_walls)
        next_pos == <<current_state_.pos[1] + d[1], current_state_.pos[2] + d[2]>>
        broke_wall_base ==
            IF next_pos \in current_walls
            THEN _inverse_transform_pos(next_pos, current_rotation, problem.width, problem.height)
            ELSE None
    IN  IF ~(0 <= next_pos[1] /\ next_pos[1] < width_rot /\ 0 <= next_pos[2] /\ next_pos[2] < height_rot)
        THEN <<>>
        ELSE IF next_pos \in current_walls /\ current_state_.pie_timer <= 0 THEN <<>>
        ELSE IF next_pos \in ListSet(ghost_positions_current)
                \/ next_pos \in ListSet(ghost_positions_next) THEN <<>>
        ELSE IF <<next_pos, current_state_.pos>> \in ZipSet(ghost_positions_current, ghost_positions_next)
        THEN <<>>
        ELSE RotateCall(current_rotation, current_g_cost + 1,
                        (current_state_.step_mod_cycle + 1) % ROTATION_CYCLE,
                        next_broken(current_state_.broken_walls, broke_wall_base))

\* lines 384-403: the call made for one teleport target
TeleportCall(current_state_, current_g_cost, ghost_positions_current, ghost_positions_next, target) ==
    IF \/ target = current_state_.pos
       \/ target \in ListSet(ghost_positions_current)
       \/ target \in ListSet(ghost_positions_next) THEN <<>>
    ELSE IF <<target, current_state_.pos>> \in ZipSet(ghost_positions_current, ghost_positions_next)
    THEN <<>>
    ELSE RotateCall(_current_rotation(current_state_.step_mod_cycle), current_g_cost + 1,
                    (current_state_.step_mod_cycle + 1) % ROTATION_CYCLE,
                    current_state_.broken_walls)

\* lines 292-403: the keys get_successors calls _ghost_positions_continuous
\* with, in the order of the calls
GhostCalls(current_state_, current_g_cost) ==
    LET current_rotation == _current_rotation(current_state_.step_mod_cycle)
        current_teleports == problem.rotated_teleports[current_rotation + 1]
        ghost_positions_current == GhostsAt(current_state_, current_g_cost)
        ghost_positions_next == GhostsAt(current_state_, current_g_cost + 1)
    IN  << <<current_g_cost, current_rotation, current_state_.broken_walls>>,
           <<current_g_cost + 1, current_rotation, current_state_.broken_walls>> >>
        \o Concat([i \in 1 .. Len(actions) |->
                      DirectionalCall(current_state_, current_g_cost, ghost_positions_current,
                                      ghost_positions_next, actions[i][2])])
        \o (IF current_state_.pos \in current_teleports
            THEN Concat([i \in 1 .. Cardinality(current_teleports) |->
                            TeleportCall(current_state_, current_g_cost, ghost_positions_current,
                                         ghost_positions_next, IterationOrder(current_teleports)[i])])
            ELSE <<>>)

----
(* strategies.py: the heuristic engine.  The module-level caches are pure *)
(* memoisation of the functions below.                                     *)

\* math.inf: larger than any distance on a board
inf == 1000000

\* dict.get(key, default)
Get(map, key, default) == IF key \in DOMAIN map THEN map[key] ELSE default

Min(S) == CHOOSE m \in S : \A n \in S : m <= n

\* breadth-first distances from start over the effective walls of a rotation,
\* with a teleport edge of cost 1 between any two teleport tiles
_distance_map_effective(rotation, start, broken_walls) ==
    LET width_ == problem.rotated_dimensions[rotation + 1][1]
        height_ == problem.rotated_dimensions[rotation + 1][2]
        walls == _effective_walls(rotation, broken_walls)
        teleports == problem.rotated_teleports[rotation + 1]
        Neighbours(c) ==
            { n \in { <<c[1], c[2] + 1>>, <<c[1], c[2] - 1>>, <<c[1] + 1, c[2]>>, <<c[1] - 1, c[2]>> } :
                /\ 0 <= n[1] /\ n[1] < width_ /\ 0 <= n[2] /\ n[2] < height_
                /\ n \notin walls }
            \cup (IF c \in teleports THEN teleports \ {c} ELSE {})
        RECURSIVE Grow(_, _, _)
        Grow(distances, layer, base) ==
            IF layer = {} THEN distances
            ELSE LET next == UNION { Neighbours(c) : c \in layer } \ DOMAIN distances
                 IN  Grow(distances @@ [n \in next |-> base + 1], next, base + 1)
    IN  Grow(start :> 0, {start}, 0)

_nearest_food_distance(rotation, state) ==
    IF state.food_left = {} THEN 0
    ELSE LET dist_map == _distance_map_effective(rotation, state.pos, state.broken_walls)
             best == Min({ Get(dist_map, food, inf) : food \in state.food_left })
         IN  IF best = inf THEN 0 ELSE best

\* Prim's algorithm from the first food of the set; it stops at the first
\* food it cannot reach and keeps the cost summed so far
_mst_cost(rotation, foods, broken) ==
    LET RECURSIVE Prim(_, _)
        Prim(visited, total) ==
            IF Cardinality(visited) >= Cardinality(foods) THEN total
            ELSE LET Dist(v, u) == Get(_distance_map_effective(rotation, v, broken), u, inf)
                     edges == { <<v, u>> \in visited \X (foods \ visited) : TRUE }
                     best_cost == Min({ Dist(e[1], e[2]) : e \in edges } \cup {inf})
                     best_food == (CHOOSE e \in edges : Dist(e[1], e[2]) = best_cost)[2]
                 IN  IF best_cost = inf THEN total
                     ELSE Prim(visited \cup {best_food}, total + best_cost)
    IN  IF Cardinality(foods) <= 1 THEN 0
        ELSE Prim({IterationOrder(foods)[1]}, 0)

_exit_tail(rotation, foods, broken) ==
    IF problem.exit = None \/ foods = {} THEN 0
    ELSE LET exit_pos == problem.rotated_exit[rotation + 1]
             best == Min({ Get(_distance_map_effective(rotation, food, broken), exit_pos, inf) :
                             food \in foods } \cup {inf})
         IN  IF exit_pos = None THEN 0
             ELSE IF best = inf THEN 0 ELSE best

\* line 136: the cache key of a state (the id of the one problem left out)
HeuristicKey(state) ==
    << state.step_mod_cycle % ROTATION_PERIOD,
       (state.step_mod_cycle \div ROTATION_PERIOD) % 4,
       state.pos, state.food_left, state.broken_walls >>

\* the look-ahead reading the next frame with the coordinates of this one
_rot_coord_unturned(c, cur_rotation) == c

\* lines 140-143, 180-181: a coordinate of the current frame in the next one
_rot_coord(c, cur_rotation) ==
    _transform_pos(_inverse_transform_pos(c, cur_rotation, problem.width, problem.height),
                   (cur_rotation + 1) % 4, problem.width, problem.height)

\* lines 155, 176: the steps until the next rotation boundary
k_boundary(state) ==
    IF state.step_mod_cycle % ROTATION_PERIOD = 0 THEN ROTATION_PERIOD
    ELSE ROTATION_PERIOD - (state.step_mod_cycle % ROTATION_PERIOD)

\* lines 147-152 and 170-173: the estimate in the current frame
best_cur(state, cur_rotation) ==
    IF state.food_left = {}
    THEN Get(_distance_map_effective(cur_rotation, state.pos, state.broken_walls),
             problem.rotated_exit[cur_rotation + 1], 0)
    ELSE _nearest_food_distance(cur_rotation, state)
             + _mst_cost(cur_rotation, state.food_left, state.broken_walls)
             + _exit_tail(cur_rotation, state.food_left, state.broken_walls)

\* lines 185-187: the nearest food in the next frame
pac_to_food_next(dist_map_next, foods_next) ==
    LET best_food_next == Min({ Get(dist_map_next, f, inf) : f \in foods_next } \cup {inf})
    IN  IF best_food_next = inf THEN 0 ELSE best_food_next

\* lines 156-165 (no food: the term added to k_boundary) and 177-190
best_next(state, cur_rotation, next_rotation, pos_next, foods_next) ==
    IF state.food_left = {}
    THEN LET exit_pos_next == problem.rotated_exit[next_rotation + 1]
             reach == IF exit_pos_next = None THEN inf
                      ELSE Get(_distance_map_effective(next_rotation, pos_next, state.broken_walls),
                               exit_pos_next, inf)
         IN  k_boundary(state) + (IF reach = inf THEN 0 ELSE reach)
    ELSE k_boundary(state)
             + pac_to_food_next(_distance_map_effective(next_rotation, pos_next, state.broken_walls),
                                foods_next)
             + _mst_cost(next_rotation, foods_next, state.broken_walls)
             + _exit_tail(next_rotation, foods_next, state.broken_walls)

\* lines 165, 192: value = min(best_cur, best_next)
MinOf(a, b) == IF a <= b THEN a ELSE b

\* lines 145-192: the value computed when the key is not in the cache
HeuristicValue(state, cur_rotation) ==
    IF state.food_left = {} /\ problem.rotated_exit[cur_rotation + 1] = None THEN 0
    ELSE MinOf(best_cur(state, cur_rotation),
               best_next(state, cur_rotation, (cur_rotation + 1) % 4,
                         _rot_coord(state.pos, cur_rotation),
                         { _rot_coord(f, cur_rotation) : f \in state.food_left }))

\* the cache filled with the value of the pie branch (line 129) instead of
\* the value returned
HeuristicStored_zero(state) == 0 * state.step_mod_cycle

\* lines 149, 166, 193: the value stored in _heuristic_cache under the key
HeuristicStored(state) ==
    HeuristicValue(state, (state.step_mod_cycle \div ROTATION_PERIOD) % 4)

\* pacman_heuristic(state, problem) with the cache as it stands
pacman_heuristic(cache, state) ==
    IF state.pie_timer > 0 THEN 0
    ELSE IF HeuristicKey(state) \in DOMAIN cache THEN cache[HeuristicKey(state)]
    ELSE HeuristicValue(state, (state.step_mod_cycle \div ROTATION_PERIOD) % 4)

\* the cache after that call
CacheAfter(cache, state) ==
    IF state.pie_timer > 0 \/ HeuristicKey(state) \in DOMAIN cache THEN cache
    ELSE cache @@ (HeuristicKey(state) :> HeuristicStored(state))

----
(* search.py: a_star_search *)

\* a_star_search has not been called
SearchIdle ==
    /\ search_pc = "idle"
    /\ frontier = {}
    /\ explored = {}
    /\ tie_breaker = 0
    /\ nodes = <<>>
    /\ returned = None

RotIdle ==
    /\ rot_in = None
    /\ rot_out = None

\* pacman_problem.py lines 68-71: the two caches of a new PacmanProblem.
\* They are followed in SpecDraw; the other specifications leave them
\* empty, as the memoised function returns what it would compute.
GhostCacheEmpty ==
    /\ _ghost_pos_cache = {}
    /\ _ghost_seed_cache = {}

\* the module strategies has just been imported
CacheEmpty ==
    /\ _heuristic_cache = <<>>
    /\ first_return = None

\* the fields of PacmanGame right after reset_game()
GameIdle ==
    /\ game_state = "MENU"
    /\ solution_path = <<>>
    /\ solution_cost = 0
    /\ _searching = FALSE
    /\ _search_result = None
    /\ _search_thread = None
    /\ printed = <<>>

Node(state, parent, action, g_cost) ==
    [state |-> state, parent |-> parent, action |-> action, g_cost |-> g_cost]

\* heapq.heappop: the least entry, tuples compared field by field
HeapMin(heap) ==
    CHOOSE e \in heap : \A o \in heap :
        \/ e[1] < o[1]
        \/ e[1] = o[1] /\ e[2] < o[2]
        \/ e[1] = o[1] /\ e[2] = o[2] /\ nodes[e[3]].g_cost <= nodes[o[3]].g_cost

\* the walk of lines 43-46 stopped after its first round: the last action
\* alone
PathTo_dropped(n) ==
    IF nodes[n].parent = NoParent THEN <<>>
    ELSE <<nodes[n].action>>

\* the actions on the parent chain of a node, root first
RECURSIVE PathTo(_)
PathTo(n) ==
    IF nodes[n].parent = NoParent THEN <<>>
    ELSE Append(PathTo(nodes[n].parent), nodes[n].action)

\* lines 21-29: the start node is pushed with tie_breaker 0
AStarBegin ==
    LET initial_state == get_initial_state
        start_node == Node(initial_state, NoParent, "None", 0)
        f_cost == start_node.g_cost + pacman_heuristic(_heuristic_cache, start_node.state)
    IN  /\ search_pc' = "loop"
        /\ _heuristic_cache' = CacheAfter(_heuristic_cache, start_node.state)
        /\ nodes' = <<start_node>>
        /\ tie_breaker' = 0
        /\ frontier' = { <<f_cost, 0, 1>> }
        /\ explored' = {}
        /\ returned' = None

\* lines 32-35 reading the least entry without taking it off the heap
PopExplored_peek ==
    /\ search_pc = "loop"
    /\ frontier # {}
    /\ LET entry == HeapMin(frontier)
           current_node == nodes[entry[3]]
       IN  /\ current_node.state \in explored
           /\ frontier' = frontier
    /\ UNCHANGED <<layout_file, problem, ghostCacheVars, playVars, cacheVars, gameVars, rotVars, search_pc, explored, tie_breaker, nodes, returned>>

\* lines 32-35: the popped node's state was already expanded
PopExplored ==
    /\ search_pc = "loop"
    /\ frontier # {}
    /\ LET entry == HeapMin(frontier)
           current_node == nodes[entry[3]]
       IN  /\ current_node.state \in explored
           /\ frontier' = frontier \ {entry}
    /\ UNCHANGED <<layout_file, problem, ghostCacheVars, playVars, cacheVars, gameVars, rotVars, search_pc, explored, tie_breaker, nodes, returned>>

\* lines 37-48: the popped node is a goal: return its path and g_cost
PopGoal ==
    /\ search_pc = "loop"
    /\ frontier # {}
    /\ LET entry == HeapMin(frontier)
           current_node == nodes[entry[3]]
       IN  /\ current_node.state \notin explored
           /\ is_goal(current_node.state)
           /\ returned' = <<PathTo(entry[3]), current_node.g_cost>>
    /\ search_pc' = "done"
    /\ frontier' = {}
    /\ explored' = {}
    /\ tie_breaker' = 0
    /\ nodes' = <<>>
    /\ UNCHANGED <<layout_file, problem, ghostCacheVars, playVars, cacheVars, gameVars, rotVars>>

\* line 62 for the children in turn: the cache after the heuristic was
\* called on the first n of them
RECURSIVE CacheAfterAll(_, _, _)
CacheAfterAll(cache, pushed, n) ==
    IF n = 0 THEN cache
    ELSE CacheAfter(CacheAfterAll(cache, pushed, n - 1), pushed[n][2])

\* the children pushed without line 63: every entry carries the same counter
PushAll_uncounted(entry, g_cost, pushed) ==
    /\ nodes' = nodes \o [i \in 1 .. Len(pushed) |->
                             Node(pushed[i][2], entry[3], pushed[i][1], g_cost + 1)]
    /\ frontier' = (frontier \ {entry}) \cup
           { << g_cost + 1 + pacman_heuristic(CacheAfterAll(_heuristic_cache, pushed, i - 1),
                                              pushed[i][2]),
                tie_breaker,
                Len(nodes) + i >> : i \in 1 .. Len(pushed) }
    /\ tie_breaker' = tie_breaker
    /\ _heuristic_cache' = CacheAfterAll(_heuristic_cache, pushed, Len(pushed))

\* lines 56-64: the children that are not explored are pushed in order
PushAll(entry, g_cost, pushed) ==
    /\ nodes' = nodes \o [i \in 1 .. Len(pushed) |->
                             Node(pushed[i][2], entry[3], pushed[i][1], g_cost + 1)]
    /\ frontier' = (frontier \ {entry}) \cup
           { << g_cost + 1 + pacman_heuristic(CacheAfterAll(_heuristic_cache, pushed, i - 1),
                                              pushed[i][2]),
                tie_breaker + i,
                Len(nodes) + i >> : i \in 1 .. Len(pushed) }
    /\ tie_breaker' = tie_breaker + Len(pushed)
    /\ _heuristic_cache' = CacheAfterAll(_heuristic_cache, pushed, Len(pushed))

\* line 59: the successors whose state is not explored
Unexplored(successors, explored_) ==
    LET NotExplored(pair) == pair[2] \notin explored_
    IN  SelectSeq(successors, NotExplored)

\* the popped node expanded without line 50: its state is not marked
ExpandNode_unmarked(entry, current_node) ==
    /\ current_node.state \notin explored
    /\ ~is_goal(current_node.state)
    /\ explored' = explored
    /\ PushAll(entry, current_node.g_cost,
               Unexplored(get_successors(current_node.state, current_node.g_cost),
                          explored \cup {current_node.state}))

\* lines 50-64: the popped node is expanded and its children are pushed
ExpandNode(entry, current_node) ==
    /\ current_node.state \notin explored
    /\ ~is_goal(current_node.state)
    /\ explored' = explored \cup {current_node.state}
    /\ PushAll(entry, current_node.g_cost,
               Unexplored(get_successors(current_node.state, current_node.g_cost),
                          explored \cup {current_node.state}))

Expand ==
    /\ search_pc = "loop"
    /\ frontier # {}
    /\ ExpandNode(HeapMin(frontier), nodes[HeapMin(frontier)[3]])
    /\ UNCHANGED <<layout_file, problem, ghostCacheVars, playVars, first_return, gameVars, rotVars, search_pc, returned>>

\* lines 66-67: the frontier is empty
Fail ==
    /\ search_pc = "loop"
    /\ frontier = {}
    /\ returned' = <<NoPath, 0>>
    /\ search_pc' = "done"
    /\ explored' = {}
    /\ tie_breaker' = 0
    /\ nodes' = <<>>
    /\ UNCHANGED <<layout_file, problem, ghostCacheVars, playVars, cacheVars, gameVars, rotVars, frontier>>

AStarStep == PopExplored \/ PopGoal \/ Expand \/ Fail

----
(* The successor relation of the problem model, explored move by move     *)
(* from the initial state with the elapsed steps 0, 1, 2, ...             *)

InitSucc ==
    /\ \E l \in 1 .. Len(Layouts) : layout_file = Layouts[l]
    /\ problem = _parse_layout(layout_file)
    /\ current_state = get_initial_state
    /\ steps = 0
    /\ h_mark = 0
    /\ SearchIdle
    /\ CacheEmpty
    /\ GhostCacheEmpty
    /\ GameIdle
    /\ RotIdle

\* a directional move accepted by get_successors
Move ==
    /\ steps < MaxSteps
    /\ \E i \in 1 .. Len(DirectionalSuccessors(current_state, steps)) :
           current_state' = DirectionalSuccessors(current_state, steps)[i][2]
    /\ steps' = steps + 1
    /\ h_mark' = Max(0, h_mark - 1)
    /\ UNCHANGED <<layout_file, problem, ghostCacheVars, searchVars, cacheVars, gameVars, rotVars>>

\* a teleport accepted by get_successors
Teleport ==
    /\ steps < MaxSteps
    /\ \E i \in 1 .. Len(TeleportSuccessors(current_state, steps)) :
           current_state' = TeleportSuccessors(current_state, steps)[i][2]
    /\ steps' = steps + 1
    /\ h_mark' = Max(0, h_mark - 1)
    /\ UNCHANGED <<layout_file, problem, ghostCacheVars, searchVars, cacheVars, gameVars, rotVars>>

NextSucc == Move \/ Teleport

SpecSucc == InitSucc /\ [][NextSucc]_vars

----
(* solve_pacman_problem(problem) on its own: a_star_search has entered     *)
(* its loop                                                                *)

InitSearch ==
    /\ \E l \in 1 .. Len(Layouts) : layout_file = Layouts[l]
    /\ problem = _parse_layout(layout_file)
    /\ current_state = get_initial_state
    /\ steps = 0
    /\ h_mark = 0
    /\ search_pc = "loop"
    /\ nodes = <<Node(get_initial_state, NoParent, "None", 0)>>
    /\ tie_breaker = 0
    /\ frontier = { <<pacman_heuristic(<<>>, get_initial_state), 0, 1>> }
    /\ explored = {}
    /\ returned = None
    /\ _heuristic_cache = CacheAfter(<<>>, get_initial_state)
    /\ GhostCacheEmpty
    /\ first_return = None
    /\ GameIdle
    /\ RotIdle

NextSearch == PopExplored \/ PopGoal \/ Expand \/ Fail

SpecSearch == InitSearch /\ [][NextSearch]_vars

\* lines 32-50: the popped node is neither explored nor a goal, which is
\* when Expand can be taken
ExpandEnabled ==
    /\ search_pc = "loop"
    /\ frontier # {}
    /\ nodes[HeapMin(frontier)[3]].state \notin explored
    /\ ~is_goal(nodes[HeapMin(frontier)[3]].state)

\* the thread that runs a_star_search keeps being scheduled: weak fairness
\* of every step of the loop, the one of Expand written out with
\* ExpandEnabled for ENABLED <<Expand>>_vars
SpecSearchFair ==
    /\ SpecSearch
    /\ WF_vars(PopExplored)
    /\ WF_vars(PopGoal)
    /\ WF_vars(Fail)
    /\ ([]<>~ExpandEnabled \/ []<><<Expand>>_vars)

----
(* game.py: PacmanGame.  One frame of run() handles the pending events,    *)
(* then calls _update(); the worker thread runs a_star_search on the       *)
(* problem and stores what it returns.                                     *)

\* Python truth of a list-or-None: None and [] are false
Truthy(path) == path # NoPath /\ Len(path) > 0

\* dict(successors).get(action_name): the last pair with that label, or None
RECURSIVE DictGet(_, _)
DictGet(successors, action_name) ==
    IF Len(successors) = 0 THEN None
    ELSE IF successors[Len(successors)][1] = action_name THEN successors[Len(successors)][2]
    ELSE DictGet(SubSeq(successors, 1, Len(successors) - 1), action_name)

\* every tile of the board in some rotation
Tiles == (0 .. Max(problem.width, problem.height) - 1) \X (0 .. Max(problem.width, problem.height) - 1)

TeleportLabels == { TeleportLabel(t) : t \in Tiles }

\* lines 112-122: the tile an action label aims at, None for a label it cannot read
IntendedPos(action_name) ==
    IF action_name = "North" THEN <<current_state.pos[1], current_state.pos[2] - 1>>
    ELSE IF action_name = "South" THEN <<current_state.pos[1], current_state.pos[2] + 1>>
    ELSE IF action_name = "West" THEN <<current_state.pos[1] - 1, current_state.pos[2]>>
    ELSE IF action_name = "East" THEN <<current_state.pos[1] + 1, current_state.pos[2]>>
    ELSE IF action_name \in TeleportLabels
         THEN CHOOSE t \in Tiles : TeleportLabel(t) = action_name
    ELSE None

\* reset_game()
reset_game ==
    /\ game_state' = "MENU"
    /\ current_state' = get_initial_state
    /\ steps' = 0
    /\ solution_path' = <<>>
    /\ solution_cost' = 0
    /\ _search_thread' = None
    /\ _searching' = FALSE
    /\ _search_result' = None

\* lines 126-144: the model has no successor under the label: a death when
\* the aimed tile meets a ghost and no pie is active
Rejected(intended_pos, ghosts_now, ghosts_next) ==
    [ ret |-> FALSE,
      over |-> /\ intended_pos # None
               /\ current_state.pie_timer <= 0
               /\ \/ <<intended_pos, current_state.pos>> \in ZipSet(ghosts_now, ghosts_next)
                  \/ intended_pos \in ListSet(ghosts_next)
                  \/ intended_pos \in ListSet(ghosts_now),
      won |-> FALSE,
      state |-> current_state ]

\* lines 145-161: the successor is taken, then checked against the ghosts
\* at the new step count under its own broken walls
Taken(next_state) ==
    LET ghost_positions ==
            ListSet(_ghost_positions_continuous(steps + 1,
                                                _current_rotation(next_state.step_mod_cycle),
                                                next_state.broken_walls))
    IN  [ ret |-> next_state.pos \notin ghost_positions,
          over |-> next_state.pos \in ghost_positions,
          won |-> next_state.pos \notin ghost_positions /\ is_goal(next_state),
          state |-> next_state ]

\* _apply_action(action_name): what it returns (ret), whether it printed
\* "Game Over!" (over) or "You Win!" (won), both followed by reset_game(),
\* and the state it moved to
ApplyOutcome(action_name, next_state) ==
    IF next_state = None
    THEN Rejected(IntendedPos(action_name), GhostsAt(current_state, steps),
                  GhostsAt(current_state, steps + 1))
    ELSE Taken(next_state)

_apply_action(action_name) ==
    ApplyOutcome(action_name, DictGet(get_successors(current_state, steps), action_name))

\* a call of _apply_action in MANUAL mode that counts the step before it
\* knows the action was taken
ManualEffect_counts(outcome) ==
    /\ printed' = IF outcome.over THEN <<"Game Over!">>
                  ELSE IF outcome.won THEN <<"You Win!">> ELSE <<>>
    /\ IF outcome.over \/ outcome.won THEN reset_game
       ELSE /\ current_state' = outcome.state
            /\ steps' = steps + 1
            /\ UNCHANGED <<game_state, solution_path, solution_cost, _searching,
                           _search_result, _search_thread>>

\* the effect of a call of _apply_action in MANUAL mode
ManualEffect(outcome) ==
    /\ printed' = IF outcome.over THEN <<"Game Over!">>
                  ELSE IF outcome.won THEN <<"You Win!">> ELSE <<>>
    /\ IF outcome.over \/ outcome.won THEN reset_game
       ELSE /\ current_state' = outcome.state
            /\ steps' = IF outcome.ret THEN steps + 1 ELSE steps
            /\ UNCHANGED <<game_state, solution_path, solution_cost, _searching,
                           _search_result, _search_thread>>

\* _handle_input, MENU: 'm' and 'a'
KeyM ==
    /\ game_state = "MENU"
    /\ game_state' = "MANUAL"
    /\ printed' = <<>>
    /\ UNCHANGED <<layout_file, problem, ghostCacheVars, playVars, searchVars, cacheVars, rotVars, solution_path, solution_cost,
                   _searching, _search_result, _search_thread>>

KeyA ==
    /\ game_state = "MENU"
    /\ game_state' = "AUTO_SEARCH"
    /\ printed' = <<>>
    /\ UNCHANGED <<layout_file, problem, ghostCacheVars, playVars, searchVars, cacheVars, rotVars, solution_path, solution_cost,
                   _searching, _search_result, _search_thread>>

\* _handle_input, MANUAL: an arrow key
KeyArrow ==
    /\ game_state = "MANUAL"
    /\ steps < MaxSteps
    /\ \E i \in 1 .. Len(actions) : ManualEffect(_apply_action(actions[i][1]))
    /\ UNCHANGED <<layout_file, problem, ghostCacheVars, h_mark, searchVars, cacheVars, rotVars>>

\* lines 81-99: the teleport actions offered to the keys 't', '1' .. '4'
TeleportChoices(successors) ==
    LET IsTeleport(pair) == pair[1] \in TeleportLabels
        tp_actions == SelectSeq(successors, IsTeleport)
        teleports_here == problem.rotated_teleports[_current_rotation(current_state.step_mod_cycle) + 1]
        others == IterationOrder(teleports_here \ {current_state.pos})
    IN  IF Len(tp_actions) > 0 THEN [i \in 1 .. Len(tp_actions) |-> tp_actions[i][1]]
        ELSE IF current_state.pos \in teleports_here
             THEN [i \in 1 .. Len(others) |-> TeleportLabel(others[i])]
        ELSE <<>>

\* _handle_input, MANUAL: 't' is choice 1, the digit k is choice k
KeyTeleport ==
    /\ game_state = "MANUAL"
    /\ steps < MaxSteps
    /\ \E index \in 1 .. 4 :
           /\ index <= Len(TeleportChoices(get_successors(current_state, steps)))
           /\ ManualEffect(_apply_action(TeleportChoices(get_successors(current_state, steps))[index]))
    /\ UNCHANGED <<layout_file, problem, ghostCacheVars, h_mark, searchVars, cacheVars, rotVars>>

\* _update, MANUAL: the agent stands on a ghost
UpdateManual ==
    IF current_state.pos \in ListSet(GhostsAt(current_state, steps))
    THEN /\ printed' = <<"Game Over!">>
         /\ reset_game
         /\ UNCHANGED <<h_mark, searchVars>>
    ELSE UNCHANGED <<playVars, searchVars, gameVars>>

\* the worker thread started without line 178, the slot left as it is
UpdateStartSearch_uncleared ==
    /\ _searching' = TRUE
    /\ _search_thread' = "Thread"
    /\ search_pc' = "called"
    /\ printed' = <<"Finding optimal path using A* (async)...">>
    /\ UNCHANGED <<playVars, game_state, solution_path, solution_cost, _search_result,
                   frontier, explored, tie_breaker, nodes, returned>>

\* _update, AUTO_SEARCH, lines 175-186: the worker thread is started
UpdateStartSearch ==
    /\ _searching' = TRUE
    /\ _search_result' = None
    /\ _search_thread' = "Thread"
    /\ search_pc' = "called"
    /\ printed' = <<"Finding optimal path using A* (async)...">>
    /\ UNCHANGED <<playVars, game_state, solution_path, solution_cost,
                   frontier, explored, tie_breaker, nodes, returned>>

\* _update, AUTO_SEARCH, lines 189-201: a result is in the slot
UpdatePoll ==
    /\ IF Truthy(_search_result[1])
       THEN /\ solution_path' = _search_result[1]
            /\ solution_cost' = _search_result[2]
            /\ game_state' = "AUTO_ANIMATE"
            /\ printed' = <<"SOLUTION FOUND">>
       ELSE /\ game_state' = "MENU"
            /\ printed' = <<"Could not find a solution.">>
            /\ UNCHANGED <<solution_path, solution_cost>>
    /\ _searching' = FALSE
    /\ _search_thread' = None
    /\ UNCHANGED <<playVars, searchVars, _search_result>>

\* the effect of a call of _apply_action on the next action of the plan
AnimateEffect(outcome) ==
    /\ printed' = (IF outcome.over THEN <<"Game Over!">>
                   ELSE IF outcome.won THEN <<"You Win!">> ELSE <<>>)
                  \o (IF outcome.ret THEN <<>> ELSE <<"Animation desynced">>)
    /\ IF outcome.over \/ outcome.won \/ ~outcome.ret THEN reset_game
       ELSE /\ current_state' = outcome.state
            /\ steps' = steps + 1
            /\ solution_path' = Tail(solution_path)
            /\ UNCHANGED <<game_state, solution_cost, _searching, _search_result, _search_thread>>

\* _update, AUTO_ANIMATE, lines 206-213: the next action of the plan is
\* replayed, or the plan is used up
UpdateAnimate ==
    /\ IF Len(solution_path) > 0
       THEN AnimateEffect(_apply_action(Head(solution_path)))
       ELSE /\ printed' = <<"Animation finished.">>
            /\ reset_game
    /\ UNCHANGED <<h_mark, searchVars>>

\* one frame that does not look at the _searching flag before it starts a
\* worker
_update_unflagged ==
    /\ IF game_state = "MANUAL" THEN UpdateManual
       ELSE IF game_state = "AUTO_SEARCH"
            THEN IF _searching /\ _search_result # None THEN UpdatePoll
                 ELSE UpdateStartSearch
       ELSE IF game_state = "AUTO_ANIMATE" THEN UpdateAnimate
       ELSE UNCHANGED <<playVars, searchVars, gameVars>>
    /\ UNCHANGED <<layout_file, problem, ghostCacheVars, cacheVars, rotVars>>

\* _update(): one frame
_update ==
    /\ IF game_state = "MANUAL" THEN UpdateManual
       ELSE IF game_state = "AUTO_SEARCH"
            THEN IF ~_searching THEN UpdateStartSearch
                 ELSE IF _search_result # None THEN UpdatePoll
                 ELSE UNCHANGED <<playVars, searchVars, gameVars>>
       ELSE IF game_state = "AUTO_ANIMATE" THEN UpdateAnimate
       ELSE UNCHANGED <<playVars, searchVars, gameVars>>
    /\ UNCHANGED <<layout_file, problem, ghostCacheVars, cacheVars, rotVars>>

\* the worker enters a_star_search
WorkerBegin ==
    /\ search_pc = "called"
    /\ AStarBegin
    /\ UNCHANGED <<layout_file, problem, ghostCacheVars, playVars, first_return, gameVars, rotVars>>

\* line 183: the worker stores the result and ends
WorkerStore ==
    /\ search_pc = "done"
    /\ _search_result' = returned
    /\ search_pc' = "idle"
    /\ returned' = None
    /\ UNCHANGED <<layout_file, problem, ghostCacheVars, playVars, cacheVars, rotVars, frontier, explored, tie_breaker, nodes,
                   game_state, solution_path, solution_cost, _searching, _search_thread, printed>>

InitGame ==
    /\ \E l \in 1 .. Len(Layouts) : layout_file = Layouts[l]
    /\ problem = _parse_layout(layout_file)
    /\ current_state = get_initial_state
    /\ steps = 0
    /\ h_mark = 0
    /\ SearchIdle
    /\ CacheEmpty
    /\ GhostCacheEmpty
    /\ GameIdle
    /\ RotIdle

NextGame ==
    \/ KeyM \/ KeyA \/ KeyArrow \/ KeyTeleport
    \/ _update
    \/ WorkerBegin \/ PopExplored \/ PopGoal \/ Expand \/ Fail \/ WorkerStore

SpecGame == InitGame /\ [][NextGame]_vars

----
(* The drawing thread and the search worker on the one PacmanProblem, from *)
(* the start of the program until a search has ended.  run() handles the   *)
(* events, calls _update() and calls _draw() in every frame; the three are *)
(* taken in any order here, the order of run() among them.  The worker is  *)
(* in flight in AUTO_SEARCH only, so the keys of MANUAL are left out.      *)

\* game.py lines 240-262: _draw() asks for the ghosts of the shown state
_draw ==
    /\ LET after == GhostCachesAfter(<<_ghost_pos_cache, _ghost_seed_cache>>, steps,
                                     _current_rotation(current_state.step_mod_cycle),
                                     current_state.broken_walls)
       IN  /\ _ghost_pos_cache' = after[1]
           /\ _ghost_seed_cache' = after[2]
    /\ UNCHANGED <<layout_file, problem, playVars, searchVars, cacheVars, gameVars, rotVars>>

\* _update() in MENU and in AUTO_SEARCH: it calls nothing of the problem
FrameUpdate ==
    /\ game_state \in {"MENU", "AUTO_SEARCH"}
    /\ _update

\* search.py lines 50-64 in the worker: get_successors fills the caches
WorkerExpand ==
    /\ search_pc = "loop"
    /\ frontier # {}
    /\ ExpandNode(HeapMin(frontier), nodes[HeapMin(frontier)[3]])
    /\ LET current_node == nodes[HeapMin(frontier)[3]]
           after == GhostCachesAfterAll(<<_ghost_pos_cache, _ghost_seed_cache>>,
                                        GhostCalls(current_node.state, current_node.g_cost))
       IN  /\ _ghost_pos_cache' = after[1]
           /\ _ghost_seed_cache' = after[2]
    /\ UNCHANGED <<layout_file, problem, playVars, first_return, gameVars, rotVars, search_pc, returned>>

NextDraw ==
    \/ KeyA
    \/ FrameUpdate
    \/ _draw
    \/ WorkerBegin \/ PopExplored \/ PopGoal \/ WorkerExpand \/ Fail \/ WorkerStore

SpecDraw == InitGame /\ [][NextDraw]_vars

----
(* The game on a layout that is solved from the start, next to the other   *)
(* layouts: a map file with the agent and neither food nor exit passes     *)
(* _parse_layout, and its initial state is a goal state.                   *)

\* no food, no exit
LayoutBare ==
    << <<"P", " ">> >>

InitPoll ==
    /\ \E l \in 1 .. Len(Layouts) + 1 : layout_file = (Layouts \o <<LayoutBare>>)[l]
    /\ problem = _parse_layout(layout_file)
    /\ current_state = get_initial_state
    /\ steps = 0
    /\ h_mark = 0
    /\ SearchIdle
    /\ CacheEmpty
    /\ GhostCacheEmpty
    /\ GameIdle
    /\ RotIdle

SpecPoll == InitPoll /\ [][NextGame]_vars

\* lines 189-201: a result is in the slot of a game in AUTO_SEARCH, which
\* is when the frame's _update() polls it
PollEnabled ==
    /\ game_state = "AUTO_SEARCH"
    /\ _searching
    /\ _search_result # None

\* frames keep running: run() calls _update() in every frame, so a result
\* that stays in the slot is polled
SpecPollFair ==
    /\ SpecPoll
    /\ WF_vars(PollEnabled /\ _update)

----
(* The plan against every other action sequence: once a_star_search has    *)
(* returned, the moves get_successors accepts are tried one after the      *)
(* other from the initial state, no further than the returned cost.        *)

ExploreLimit == IF returned[1] = NoPath THEN MaxSteps ELSE returned[2]

Explore ==
    /\ search_pc = "done"
    /\ steps < ExploreLimit
    /\ \E i \in 1 .. Len(get_successors(current_state, steps)) :
           current_state' = get_successors(current_state, steps)[i][2]
    /\ steps' = steps + 1
    /\ UNCHANGED <<layout_file, problem, ghostCacheVars, h_mark, searchVars, cacheVars, gameVars, rotVars>>

NextOpt == PopExplored \/ PopGoal \/ Expand \/ Fail \/ Explore

SpecOpt == InitSearch /\ [][NextOpt]_vars

----
(* solve_pacman_problem(problem) called twice in one process on the same   *)
(* problem: the second search starts with the cache the first one filled.  *)

SolveAgain ==
    /\ search_pc = "done"
    /\ first_return = None
    /\ first_return' = returned
    /\ AStarBegin
    /\ UNCHANGED <<layout_file, problem, ghostCacheVars, playVars, gameVars, rotVars>>

NextTwice == PopExplored \/ PopGoal \/ Expand \/ Fail \/ SolveAgain

SpecTwice == InitSearch /\ [][NextTwice]_vars

----
(* The heuristic against the real remaining cost: the value of some state  *)
(* is noted, and counted down with every move made after it.               *)

Mark ==
    /\ h_mark = 0
    /\ h_mark' = pacman_heuristic(_heuristic_cache, current_state)
    /\ UNCHANGED <<layout_file, problem, ghostCacheVars, current_state, steps, searchVars, cacheVars, gameVars, rotVars>>

NextHeur == Move \/ Teleport \/ Mark

SpecHeur == InitSucc /\ [][NextHeur]_vars

----
(* _transform_pos and _inverse_transform_pos on their own: a tile of a     *)
(* base grid is rotated, then rotated back.                                *)

InitRot ==
    /\ layout_file = None
    /\ problem = None
    /\ current_state = None
    /\ steps = 0
    /\ h_mark = 0
    /\ SearchIdle
    /\ CacheEmpty
    /\ GhostCacheEmpty
    /\ GameIdle
    /\ \E width \in 1 .. MaxDim, height \in 1 .. MaxDim, k \in 0 .. 3 :
           \E x \in 0 .. width - 1, y \in 0 .. height - 1 :
               rot_in = [pos |-> <<x, y>>, k |-> k, width |-> width, height |-> height]
    /\ rot_out = [fwd |-> None, back |-> None]

Transform ==
    /\ rot_out.fwd = None
    /\ rot_out' = [rot_out EXCEPT
                       !.fwd = _transform_pos(rot_in.pos, rot_in.k, rot_in.width, rot_in.height)]
    /\ UNCHANGED <<layout_file, problem, ghostCacheVars, playVars, searchVars, cacheVars, gameVars, rot_in>>

Inverse ==
    /\ rot_out.fwd # None
    /\ rot_out.back = None
    /\ rot_out' = [rot_out EXCEPT
                       !.back = _inverse_transform_pos(rot_out.fwd, rot_in.k, rot_in.width, rot_in.height)]
    /\ UNCHANGED <<layout_file, problem, ghostCacheVars, playVars, searchVars, cacheVars, gameVars, rot_in>>

NextRot == Transform \/ Inverse

SpecRot == InitRot /\ [][NextRot]_vars

----
(* PacmanProblem(layout_text) and get_initial_state() on their own: a     *)
(* problem is constructed from a small grid, with or without a 'P'.       *)

\* the characters a tile of a generated grid holds
GridChars == {"P", ".", "O", "%", " "}

\* the grids of at most MaxDim tiles
Grids ==
    UNION { [1 .. height -> [1 .. width -> GridChars]] :
              <<width, height>> \in { d \in (1 .. MaxDim) \X (1 .. MaxDim) : d[1] * d[2] <= MaxDim } }

InitParse ==
    /\ layout_file \in Grids
    /\ problem = None
    /\ current_state = None
    /\ steps = 0
    /\ h_mark = 0
    /\ SearchIdle
    /\ CacheEmpty
    /\ GhostCacheEmpty
    /\ GameIdle
    /\ RotIdle

\* PacmanProblem(layout_file): a raised ValueError is kept in place of the
\* problem
Construct ==
    /\ problem = None
    /\ problem' = _parse_layout(layout_file)
    /\ UNCHANGED <<layout_file, ghostCacheVars, playVars, searchVars, cacheVars, gameVars, rotVars>>

GetInitialState ==
    /\ problem # None
    /\ "error" \notin DOMAIN problem
    /\ current_state = None
    /\ current_state' = get_initial_state
    /\ UNCHANGED <<layout_file, problem, ghostCacheVars, steps, h_mark, searchVars, cacheVars, gameVars, rotVars>>

NextParse == Construct \/ GetInitialState

SpecParse == InitParse /\ [][NextParse]_vars

----
(* Properties *)

\* C1: optimality of the search.  Once a_star_search has returned, no
\* sequence of actions accepted by get_successors from the initial state at
\* elapsed steps 0, 1, 2, ... reaches a goal state in fewer steps than the
\* returned cost (Explore stops at the returned cost, so a goal state it
\* reaches was reached in fewer steps), and a reachable goal means a path
\* was returned.
C1_Optimal ==
    (search_pc = "done" /\ is_goal(current_state))
        => (returned[1] # NoPath /\ steps >= returned[2])

\* C2: admissibility of the heuristic.  h_mark holds pacman_heuristic of a
\* reachable state minus the moves made since; when a goal state is reached
\* nothing of it is left, i.e. the heuristic of the marked state was at most
\* the number of moves that led from it to the goal.
C2_Admissible ==
    is_goal(current_state) => h_mark = 0

\* C3: no ghost overlap.  A state returned by get_successors(s, g) does not
\* stand on a ghost position of elapsed step g + 1, in the state's rotation
\* and under the state's own broken walls.
C3_NoGhostOverlap ==
    steps > 0 =>
        current_state.pos \notin
            ListSet(_ghost_positions_continuous(steps,
                                                _current_rotation(current_state.step_mod_cycle),
                                                current_state.broken_walls))

\* C4: planned and executed moves agree.  Replaying the returned path
\* through _apply_action never ends in the desync reset (which also follows
\* every "Game Over!" of the replay), and never uses the path up without
\* having reached a goal state ("Animation finished." is printed only when
\* the last action did not win).
C4_ReplayAgrees ==
    /\ "Animation desynced" \notin ListSet(printed)
    /\ "Animation finished." \notin ListSet(printed)

\* C5: the search terminates.  a_star_search eventually returns, either a
\* path with its cost or the failure result (None, 0); on the walled-in
\* layout it returns the failure result.
C5_Terminates ==
    <>( /\ search_pc = "done"
        /\ returned # None
        /\ returned[1] = NoPath => returned[2] = 0
        /\ problem = _parse_layout(LayoutWalledOff) => returned = <<NoPath, 0>> )

\* the search has returned the failure result
C5_FailureReturned ==
    /\ search_pc = "done"
    /\ returned = <<NoPath, 0>>

\* C6 as stated: the food and pies of every successor are subsets of its
\* parent's, coordinate by coordinate, also across a rotation boundary.
C6_SubsetLiteral ==
    [][ /\ current_state'.food_left \subseteq current_state.food_left
        /\ current_state'.pies_left \subseteq current_state.pies_left ]_vars

\* C6 amended: food and pies of every successor, taken back to the base
\* frame from the successor's rotation, are subsets of the parent's taken
\* back from the parent's rotation; when the move stays in one rotation the
\* sets themselves are subsets.
C6_SubsetBaseFrame ==
    [][ LET rot == _current_rotation(current_state.step_mod_cycle)
            rot_next == _current_rotation(current_state'.step_mod_cycle)
            Base(points, r) == { _inverse_transform_pos(q, r, problem.width, problem.height) :
                                   q \in points }
        IN  /\ Base(current_state'.food_left, rot_next) \subseteq Base(current_state.food_left, rot)
            /\ Base(current_state'.pies_left, rot_next) \subseteq Base(current_state.pies_left, rot)
            /\ rot_next = rot =>
                   /\ current_state'.food_left \subseteq current_state.food_left
                   /\ current_state'.pies_left \subseteq current_state.pies_left ]_vars

\* a move has crossed the first rotation boundary with food and a pie left
C6_CrossedWithFood ==
    /\ steps = ROTATION_PERIOD
    /\ current_state.step_mod_cycle = ROTATION_PERIOD
    /\ current_state.food_left # {}
    /\ current_state.pies_left # {}

\* C7: monotonicity of destruction.  The broken walls of a successor
\* contain its parent's and at most one coordinate more, and no broken wall
\* is a wall again in the effective walls of any rotation.
C7_BrokenMonotone ==
    [][ /\ current_state.broken_walls \subseteq current_state'.broken_walls
        /\ Cardinality(current_state'.broken_walls \ current_state.broken_walls) <= 1
        /\ \A r \in 0 .. 3 : \A b \in current_state'.broken_walls :
               _transform_pos(b, r, problem.width, problem.height)
                   \notin _effective_walls(r, current_state'.broken_walls) ]_vars

\* two walls are broken and the maze has turned since
C7_TwoBrokenAfterTurn ==
    /\ Cardinality(current_state.broken_walls) = 2
    /\ _current_rotation(current_state.step_mod_cycle) = 1

\* C8: rotation invertibility.  _inverse_transform_pos applied to
\* _transform_pos(p, k, width, height) with the same k, width and height
\* gives p back.
C8_Invertible ==
    rot_out # None /\ rot_out.back # None => rot_out.back = rot_in.pos

\* a tile off the diagonal of a non-square grid went through a quarter turn
\* and back
C8_QuarterTurnBack ==
    /\ rot_out # None
    /\ rot_out.back # None
    /\ rot_in.k = 1
    /\ rot_in.width # rot_in.height
    /\ rot_out.fwd # rot_in.pos

\* C9: the goal test.  is_goal(state) holds exactly when no food is left
\* and the layout has no exit or the position is the exit turned into the
\* state's rotation; pie_timer, pies_left and broken_walls do not change it.
C9_GoalTest ==
    /\ is_goal(current_state) <=>
           /\ current_state.food_left = {}
           /\ \/ problem.exit = None
              \/ current_state.pos =
                     _transform_pos(problem.exit, _current_rotation(current_state.step_mod_cycle),
                                    problem.width, problem.height)
    /\ \A t \in 0 .. pie_duration, pl \in SUBSET problem.initial_pies,
          bw \in {{}, problem.base_walls} \cup { {w} : w \in problem.base_walls } :
           is_goal([current_state EXCEPT !.pie_timer = t, !.pies_left = pl, !.broken_walls = bw])
               = is_goal(current_state)

\* a goal state on the exit of a turned maze
C9_GoalOnTurnedExit ==
    /\ problem.exit # None
    /\ _current_rotation(current_state.step_mod_cycle) = 1
    /\ is_goal(current_state)
    /\ current_state.pos # problem.exit

\* C10: determinism.  The second search on the same problem, started with
\* the cache the first one filled, returns the same action sequence and
\* the same cost as the first.
C10_SameResult ==
    (search_pc = "done" /\ first_return # None) => returned = first_return

\* the second search has returned a path, with the cache filled
C10_SecondRunDone ==
    /\ search_pc = "done"
    /\ first_return # None
    /\ first_return[1] # NoPath
    /\ Len(first_return[1]) > 3
    /\ DOMAIN _heuristic_cache # {}

\* the tile a directional move aims at, the i-th of actions
TargetOf(i) ==
    <<current_state.pos[1] + actions[i][2][1], current_state.pos[2] + actions[i][2][2]>>

\* the successor get_successors returns under the label of the i-th action,
\* None when there is none
SuccessorOf(i) ==
    DictGet(get_successors(current_state, steps), actions[i][1])

\* none of the ghost checks of a directional move into tile target rejects
\* it: lines 345-349 before the move, lines 365-366 after it
NoGhostRejects(target, next_broken_) ==
    LET rot == _current_rotation(current_state.step_mod_cycle)
        rot_next == _current_rotation((current_state.step_mod_cycle + 1) % ROTATION_CYCLE)
        turned == _transform_pos(
                      _inverse_transform_pos(target, rot, problem.width, problem.height),
                      rot_next, problem.width, problem.height)
    IN  /\ target \notin ListSet(GhostsAt(current_state, steps))
        /\ target \notin ListSet(GhostsAt(current_state, steps + 1))
        /\ <<target, current_state.pos>> \notin
               ZipSet(GhostsAt(current_state, steps), GhostsAt(current_state, steps + 1))
        /\ rot_next # rot =>
               turned \notin ListSet(_ghost_positions_continuous(steps + 1, rot_next, next_broken_))

\* C11 as stated: a directional move into an effective wall has no
\* successor when the parent's pie_timer is 0; when pie_timer > 0 and no
\* ghost check rejects it, it has a successor whose pos is the wall tile
\* and whose broken_walls is the parent's plus the tile's base coordinate.
C11_WallRuleLiteral ==
    \A i \in 1 .. Len(actions) :
        TargetOf(i) \in _effective_walls(_current_rotation(current_state.step_mod_cycle),
                                         current_state.broken_walls) =>
            LET base == _inverse_transform_pos(TargetOf(i),
                                               _current_rotation(current_state.step_mod_cycle),
                                               problem.width, problem.height)
            IN  IF current_state.pie_timer = 0 THEN SuccessorOf(i) = None
                ELSE NoGhostRejects(TargetOf(i), current_state.broken_walls \cup {base}) =>
                        /\ SuccessorOf(i) # None
                        /\ SuccessorOf(i).pos = TargetOf(i)
                        /\ SuccessorOf(i).broken_walls = current_state.broken_walls \cup {base}

\* C11 amended: as above, with the successor's pos being the wall tile
\* expressed in the successor's rotation, which is the tile itself unless
\* the move crosses a rotation boundary.
C11_WallRule ==
    \A i \in 1 .. Len(actions) :
        TargetOf(i) \in _effective_walls(_current_rotation(current_state.step_mod_cycle),
                                         current_state.broken_walls) =>
            LET base == _inverse_transform_pos(TargetOf(i),
                                               _current_rotation(current_state.step_mod_cycle),
                                               problem.width, problem.height)
            IN  IF current_state.pie_timer = 0 THEN SuccessorOf(i) = None
                ELSE NoGhostRejects(TargetOf(i), current_state.broken_walls \cup {base}) =>
                        /\ SuccessorOf(i) # None
                        /\ SuccessorOf(i).pos =
                               _transform_pos(base, _current_rotation(SuccessorOf(i).step_mod_cycle),
                                              problem.width, problem.height)
                        /\ _current_rotation(SuccessorOf(i).step_mod_cycle)
                               = _current_rotation(current_state.step_mod_cycle)
                             => SuccessorOf(i).pos = TargetOf(i)
                        /\ SuccessorOf(i).broken_walls = current_state.broken_walls \cup {base}

\* Pac-Man stands under an active pie next to a wall it can enter, and the
\* next move turns the maze
C11_BesideWallBeforeTurn ==
    /\ current_state.step_mod_cycle = ROTATION_PERIOD - 1
    /\ current_state.pie_timer > 0
    /\ \E i \in 1 .. Len(actions) :
           /\ TargetOf(i) \in _effective_walls(0, current_state.broken_walls)
           /\ SuccessorOf(i) # None

\* C12: teleport enumeration.  get_successors returns teleport actions only
\* when pos is a teleport tile of the current rotation; their labels are
\* distinct and name teleport tiles other than pos, in the acting frame;
\* the successor stands on the named tile (expressed in the successor's
\* rotation); with exactly two teleport tiles and no ghosts an agent on one
\* of them gets exactly one teleport action, to the other.
C12_TeleportEnumeration ==
    LET rot == _current_rotation(current_state.step_mod_cycle)
        teleports == problem.rotated_teleports[rot + 1]
        successors == get_successors(current_state, steps)
        IsTeleport(pair) == pair[1] \notin { actions[i][1] : i \in 1 .. Len(actions) }
        offered == SelectSeq(successors, IsTeleport)
    IN  /\ current_state.pos \notin teleports => offered = <<>>
        /\ \A i, j \in 1 .. Len(offered) : offered[i][1] = offered[j][1] => i = j
        /\ \A i \in 1 .. Len(offered) :
               \E t \in teleports \ {current_state.pos} :
                   /\ offered[i][1] = TeleportLabel(t)
                   /\ _inverse_transform_pos(offered[i][2].pos,
                                             _current_rotation(offered[i][2].step_mod_cycle),
                                             problem.width, problem.height)
                          = _inverse_transform_pos(t, rot, problem.width, problem.height)
        /\ (Cardinality(teleports) = 2 /\ problem.ghosts = <<>> /\ current_state.pos \in teleports) =>
               /\ Len(offered) = 1
               /\ \E t \in teleports \ {current_state.pos} : offered[1][1] = TeleportLabel(t)

\* Pac-Man stands on one of two teleport tiles of a layout without ghosts,
\* and the teleport turns the maze
C12_OnTeleportBeforeTurn ==
    /\ problem.ghosts = <<>>
    /\ current_state.step_mod_cycle = ROTATION_PERIOD - 1
    /\ Cardinality(problem.rotated_teleports[1]) = 2
    /\ current_state.pos \in problem.rotated_teleports[1]
    /\ Len(TeleportSuccessors(current_state, steps)) = 1

C14_CorridorEastEast ==
    (search_pc = "done" /\ problem = _parse_layout(LayoutFramed))
        => returned = << <<"East", "East">>, 2 >>

\* C14 amended: on that layout (1,1) and (3,1) are fallback teleport tiles
\* and the search returns the one action "Teleport to (3, 1)" with cost 1.
C14_CorridorTeleport ==
    (search_pc = "done" /\ problem = _parse_layout(LayoutFramed))
        => /\ problem.teleports_base = {<<1, 1>>, <<3, 1>>}
           /\ returned = << <<TeleportLabel(<<3, 1>>)>>, 1 >>

\* the search on the framed corridor has returned
C14_CorridorSolved ==
    /\ search_pc = "done"
    /\ problem = _parse_layout(LayoutFramed)
    /\ returned # None
    /\ returned[1] # NoPath

\* C15: at most one search in flight.  A worker is started only when none
\* has been started and not yet stored its result and the _searching flag
\* is False; while a worker is in flight the flag is True and the game stays
\* in AUTO_SEARCH, so that no second one is started.
C15_OneSearchInFlight ==
    [][ /\ (search_pc' = "called" /\ search_pc # "called") =>
               (search_pc = "idle" /\ ~_searching /\ _searching')
        /\ search_pc' # "idle" => (_searching' /\ game_state' = "AUTO_SEARCH") ]_vars

\* a worker is in its loop after an earlier search has ended
C15_LaterSearchRunning ==
    /\ search_pc = "loop"
    /\ _searching
    /\ _search_thread = "Thread"
    /\ \E key \in DOMAIN _heuristic_cache : key \notin { HeuristicKey(n.state) : n \in ListSet(nodes) }

\* C16: the result slot is written once per search.  The slot becomes a
\* result only by the worker storing what a_star_search returned, into an
\* empty slot; it is empty from the start of a worker until that write; and
\* the game leaves AUTO_SEARCH only in a frame that finds the slot written
\* by the worker it started.
C16_SingleWriteSlot ==
    [][ /\ (_search_result' # _search_result /\ _search_result' # None) =>
               (search_pc = "done" /\ _search_result = None /\ _search_result' = returned)
        /\ search_pc' # "idle" => _search_result' = None
        /\ (game_state = "AUTO_SEARCH" /\ game_state' # "AUTO_SEARCH") =>
               /\ _searching
               /\ search_pc = "idle"
               /\ _search_result # None
               /\ game_state' \in {"AUTO_ANIMATE", "MENU"} ]_vars

\* a second search is started after the first one found no solution and its
\* result was read
C16_RestartAfterFailure ==
    /\ search_pc = "called"
    /\ _search_result = None
    /\ problem = _parse_layout(LayoutWalledOff)
    /\ DOMAIN _heuristic_cache # {}

\* C17: a rejected action produces no state.  _apply_action returns False
\* for a label that get_successors does not offer, and keeps current_state;
\* a step of the game leaves (current_state, steps) as it is, resets it to
\* the initial state with steps 0, or moves to a successor state with
\* steps + 1; in AUTO_ANIMATE a plan whose next action is not offered
\* resets the game.
C17_RejectedAction ==
    [][ LET successors == get_successors(current_state, steps)
            labels == { actions[i][1] : i \in 1 .. Len(actions) }
                      \cup { TeleportLabel(t) :
                               t \in problem.rotated_teleports[
                                         _current_rotation(current_state.step_mod_cycle) + 1] }
        IN  /\ \A a \in labels :
                   DictGet(successors, a) = None =>
                       /\ ~_apply_action(a).ret
                       /\ ~_apply_action(a).won
                       /\ _apply_action(a).state = current_state
            /\ \/ current_state' = current_state /\ steps' = steps
               \/ current_state' = get_initial_state /\ steps' = 0
               \/ /\ steps' = steps + 1
                  /\ \E i \in 1 .. Len(successors) : current_state' = successors[i][2]
            /\ ( /\ game_state = "AUTO_ANIMATE"
                 /\ Len(solution_path) > 0
                 /\ \/ DictGet(successors, Head(solution_path)) = None
                    \/ ~_apply_action(Head(solution_path)).ret )
                   => (game_state' = "MENU" /\ current_state' = get_initial_state /\ steps' = 0) ]_vars

\* a manual game has made moves and stands where a direction is not
\* offered and asking for it is no death
C17_RejectedWithoutDeath ==
    /\ game_state = "MANUAL"
    /\ steps > 0
    /\ \E i \in 1 .. Len(actions) :
           /\ DictGet(get_successors(current_state, steps), actions[i][1]) = None
           /\ ~_apply_action(actions[i][1]).over

\* C18: layout validation.  Constructing a PacmanProblem from a grid with
\* no 'P' raises the error and leaves no problem model, hence no initial
\* state; from a grid with a 'P' it succeeds, and the initial state has pos
\* at the 'P' (the last one scanned), every '.' in food_left, every 'O' in
\* pies_left, pie_timer 0, step_mod_cycle 0 and no broken wall.
C18_LayoutValidation ==
    problem # None =>
        IF \A y \in 1 .. Len(layout_file) : \A x \in 1 .. Len(layout_file[1]) : layout_file[y][x] # "P"
        THEN problem = [error |-> "ValueError"] /\ current_state = None
        ELSE /\ "error" \notin DOMAIN problem
             /\ current_state # None =>
                    /\ layout_file[current_state.pos[2] + 1][current_state.pos[1] + 1] = "P"
                    /\ \A q \in TilesOf(layout_file, "P") :
                           ScanIndex(q, Len(layout_file[1])) <= ScanIndex(current_state.pos, Len(layout_file[1]))
                    /\ current_state.food_left = TilesOf(layout_file, ".")
                    /\ current_state.pies_left = TilesOf(layout_file, "O")
                    /\ current_state.pie_timer = 0
                    /\ current_state.step_mod_cycle = 0
                    /\ current_state.broken_walls = {}

\* the initial state of a problem constructed from a grid of two rows with
\* a 'P', a food and a pie
C18_InitialStateTaken ==
    /\ current_state # None
    /\ Len(layout_file) = 2
    /\ current_state.food_left # {}
    /\ current_state.pies_left # {}

\* the ghosts one step after the parent, by the ghost motion model in the
\* rotation window that contains steps + 1, expressed in the parent's frame
GhostsNextInFrame ==
    LET rot == _current_rotation(current_state.step_mod_cycle)
        rot_next == _current_rotation((current_state.step_mod_cycle + 1) % ROTATION_CYCLE)
    IN  IF rot_next = rot THEN _ghost_positions_continuous(steps + 1, rot, current_state.broken_walls)
        ELSE SeedsFrom(_ghost_positions_continuous(steps + 1, rot_next, current_state.broken_walls),
                       rot_next, rot)

\* the i-th direction leads to a tile of the grid that the wall rule lets
\* Pac-Man enter
WallRuleAdmits(i) ==
    LET rot == _current_rotation(current_state.step_mod_cycle)
        target == TargetOf(i)
    IN  /\ 0 <= target[1] /\ target[1] < problem.rotated_dimensions[rot + 1][1]
        /\ 0 <= target[2] /\ target[2] < problem.rotated_dimensions[rot + 1][2]
        /\ (target \in _effective_walls(rot, current_state.broken_walls) => current_state.pie_timer > 0)

\* the check after the move (lines 365-366) lets the i-th direction pass:
\* past a rotation boundary the target, turned, is no ghost's tile of the
\* new window under the broken walls of the successor
LastCheckAdmits(i) ==
    LET rot == _current_rotation(current_state.step_mod_cycle)
        rot_next == _current_rotation((current_state.step_mod_cycle + 1) % ROTATION_CYCLE)
        target == TargetOf(i)
        base == _inverse_transform_pos(target, rot, problem.width, problem.height)
        broken == IF target \in _effective_walls(rot, current_state.broken_walls)
                  THEN current_state.broken_walls \cup {base}
                  ELSE current_state.broken_walls
    IN  rot_next # rot =>
            _transform_pos(base, rot_next, problem.width, problem.height)
                \notin ListSet(_ghost_positions_continuous(steps + 1, rot_next, broken))

\* the target of the i-th direction is a ghost's tile at step g or g + 1
GhostOnTarget(i) ==
    \/ TargetOf(i) \in ListSet(_ghost_positions_continuous(
                                   steps, _current_rotation(current_state.step_mod_cycle),
                                   current_state.broken_walls))
    \/ TargetOf(i) \in ListSet(GhostsNextInFrame)

\* C19: ghost check at the next step.  A directional move that the wall
\* rule admits is rejected by the ghost check before the move exactly when
\* its target is a ghost's tile at step g or at step g + 1, the latter taken
\* in the rotation window that contains g + 1 and expressed in the parent's
\* frame, under the parent's broken walls; so a move to a tile that no ghost
\* occupies at g or g + 1, and that the check after the move lets pass, has
\* a successor.
C19_GhostCheckNextStep ==
    \A i \in 1 .. Len(actions) :
        WallRuleAdmits(i) =>
            /\ GhostOnTarget(i) => SuccessorOf(i) = None
            /\ (~GhostOnTarget(i) /\ LastCheckAdmits(i)) => SuccessorOf(i) # None

\* the fields of a state are in the frame of its own rotation: food and
\* pies lie in the turned images of the initial sets, pos is a tile of the
\* turned grid and holds neither food nor pie
InOwnFrame(state) ==
    LET r == _current_rotation(state.step_mod_cycle)
    IN  /\ state.food_left \subseteq _rotate_points(problem.initial_food, r, problem.width, problem.height)
        /\ state.pies_left \subseteq _rotate_points(problem.initial_pies, r, problem.width, problem.height)
        /\ 0 <= state.pos[1] /\ state.pos[1] < problem.rotated_dimensions[r + 1][1]
        /\ 0 <= state.pos[2] /\ state.pos[2] < problem.rotated_dimensions[r + 1][2]
        /\ state.pos \notin state.food_left \cup state.pies_left

\* C20: frame consistency.  In every reachable state food_left and
\* pies_left are images, under the state's rotation, of subsets of the
\* initial food and pies, and pos is in that frame too; a move across a
\* rotation boundary keeps the base-frame tile of the tile moved to and of
\* every food and pie that is left.
C20_FrameConsistency ==
    [][ LET rot == _current_rotation(current_state.step_mod_cycle)
            rot_next == _current_rotation(current_state'.step_mod_cycle)
            Base(q, r) == _inverse_transform_pos(q, r, problem.width, problem.height)
            moved_to == { TargetOf(i) : i \in 1 .. Len(actions) } \cup problem.rotated_teleports[rot + 1]
        IN  /\ InOwnFrame(current_state)
            /\ InOwnFrame(current_state')
            /\ rot_next # rot =>
                   /\ Base(current_state'.pos, rot_next) \in { Base(q, rot) : q \in moved_to }
                   /\ { Base(q, rot_next) : q \in current_state'.food_left }
                          = { Base(q, rot) : q \in current_state.food_left }
                                \ {Base(current_state'.pos, rot_next)}
                   /\ { Base(q, rot_next) : q \in current_state'.pies_left }
                          = { Base(q, rot) : q \in current_state.pies_left }
                                \ {Base(current_state'.pos, rot_next)} ]_vars

\* on a grid that is not square a move has crossed the rotation boundary
\* and turned a food and a pie with Pac-Man
C20_TurnedOblong ==
    /\ problem.width # problem.height
    /\ current_state.step_mod_cycle = ROTATION_PERIOD
    /\ current_state.food_left # {}
    /\ current_state.pies_left # {}
    /\ current_state.food_left # { _inverse_transform_pos(q, 1, problem.width, problem.height) :
                                      q \in current_state.food_left }

\* the window of the current state: its rotation and its first step
WindowRotation == _current_rotation(current_state.step_mod_cycle)

WindowStart == steps - (steps % ROTATION_PERIOD)

\* the ghosts s steps into the window of the current state, under its
\* broken walls
GhostsInWindow(s) ==
    _ghost_positions_continuous(WindowStart + s, WindowRotation, current_state.broken_walls)

\* the columns of the maximal run of open tiles of the seed's row that
\* holds the seed; empty when the seed is on a wall
CorridorOf(seed) ==
    LET walls_rot == _effective_walls(WindowRotation, current_state.broken_walls)
        width_rot == problem.rotated_dimensions[WindowRotation + 1][1]
    IN  { x \in 0 .. width_rot - 1 :
            \A c \in 0 .. width_rot - 1 :
                ((x <= c /\ c <= seed[1]) \/ (seed[1] <= c /\ c <= x)) => <<c, seed[2]>> \notin walls_rot }

\* C21: ghost bounce inside a window.  Under the broken walls of the state,
\* on any two consecutive steps of its rotation window every ghost is on
\* the row of its seed inside the corridor around the seed; in a corridor
\* of N >= 2 tiles its column changes by exactly 1 per step, turning round
\* at the two ends and only there, and its position repeats after 2(N-1)
\* steps; in a corridor of at most one tile it stays on the seed.
C21_GhostBounce ==
    \A i \in 1 .. Len(problem.ghosts) :
        LET seed == GhostsInWindow(0)[i]
            corridor == CorridorOf(seed)
            N == Cardinality(corridor)
            At(s) == GhostsInWindow(s)[i]
        IN  \A s \in 0 .. ROTATION_PERIOD - 2 :
                /\ At(s)[2] = seed[2] /\ At(s + 1)[2] = seed[2]
                /\ N <= 1 => (At(s) = seed /\ At(s + 1) = seed)
                /\ N >= 2 =>
                       /\ At(s)[1] \in corridor /\ At(s + 1)[1] \in corridor
                       /\ At(s + 1)[1] - At(s)[1] \in {-1, 1}
                       /\ s + 2 <= ROTATION_PERIOD - 1 =>
                              ( At(s + 2)[1] - At(s + 1)[1] = At(s + 1)[1] - At(s)[1]
                                    <=> (At(s + 1)[1] - 1 \in corridor /\ At(s + 1)[1] + 1 \in corridor) )
                       /\ s + 2 * (N - 1) <= ROTATION_PERIOD - 1 => At(s + 2 * (N - 1)) = At(s)

\* a ghost is at the far end of a corridor of at least three tiles that a
\* broken wall has opened, some steps into the window
C21_GhostAtCorridorEnd ==
    /\ current_state.broken_walls # {}
    /\ steps % ROTATION_PERIOD >= 2
    /\ \E i \in 1 .. Len(problem.ghosts) :
           LET corridor == CorridorOf(GhostsInWindow(0)[i])
               x == GhostsInWindow(steps % ROTATION_PERIOD)[i][1]
           IN  /\ Cardinality(corridor) >= 3
               /\ x \in corridor
               /\ x + 1 \notin corridor
               /\ x # GhostsInWindow(0)[i][1]

\* C22: ghost seed at a rotation boundary.  Under the broken walls of the
\* state, for every window start g0 = 30k, k >= 1, each ghost's position at
\* step g0 in rotation k mod 4 is the base-frame tile of its position at
\* step g0 - 1 in rotation (k-1) mod 4; at step 0 it is the spawn tile,
\* turned into the rotation asked for.
C22_GhostSeed ==
    \A i \in 1 .. Len(problem.ghosts) :
        /\ \A k \in 1 .. MaxWindows :
               _inverse_transform_pos(
                   _ghost_positions_continuous(ROTATION_PERIOD * k, k % 4, current_state.broken_walls)[i],
                   k % 4, problem.width, problem.height)
               = _inverse_transform_pos(
                     _ghost_positions_continuous(ROTATION_PERIOD * k - 1, (k - 1) % 4,
                                                 current_state.broken_walls)[i],
                     (k - 1) % 4, problem.width, problem.height)
        /\ \A r \in 0 .. 3 :
               _inverse_transform_pos(
                   _ghost_positions_continuous(0, r, current_state.broken_walls)[i],
                   r, problem.width, problem.height) = problem.ghosts[i]

\* under the broken walls of the state a ghost leaves its spawn tile and is
\* seeded at the first boundary on another tile than the spawn's, with
\* other coordinates than it had the step before
C22_SeededOffSpawn ==
    /\ current_state.broken_walls # {}
    /\ \E i \in 1 .. Len(problem.ghosts) :
           /\ _ghost_positions_continuous(ROTATION_PERIOD, 1, current_state.broken_walls)[i]
                  # _transform_pos(problem.ghosts[i], 1, problem.width, problem.height)
           /\ _ghost_positions_continuous(ROTATION_PERIOD, 1, current_state.broken_walls)[i]
                  # _ghost_positions_continuous(ROTATION_PERIOD - 1, 0, current_state.broken_walls)[i]

\* C23: lazy deletion.  A popped node whose state is in explored is taken
\* off the frontier and nothing else happens: no goal test, no expansion,
\* no push.  A node is expanded, that is get_successors is called on its
\* state, only when the state is not in explored, and that state and no
\* other is added to explored then; explored never loses a state during
\* the run, so get_successors is called at most once per state.
C23_LazyDeletion ==
    [][ (search_pc = "loop" /\ frontier # {}) =>
            LET entry == CHOOSE e \in frontier :
                             \A o \in frontier : e[1] < o[1] \/ (e[1] = o[1] /\ e[2] <= o[2])
                state == nodes[entry[3]].state
            IN  IF state \in explored
                THEN /\ search_pc' = "loop"
                     /\ frontier' = frontier \ {entry}
                     /\ explored' = explored
                     /\ nodes' = nodes
                     /\ tie_breaker' = tie_breaker
                     /\ returned' = returned
                ELSE search_pc' = "loop" =>
                         /\ explored' = explored \cup {state}
                         /\ \A n \in Len(nodes) + 1 .. Len(nodes') :
                                /\ nodes'[n].parent = entry[3]
                                /\ nodes'[n].state \notin explored'
                                /\ \E i \in 1 .. Len(get_successors(state, nodes[entry[3]].g_cost)) :
                                       get_successors(state, nodes[entry[3]].g_cost)[i]
                                           = <<nodes'[n].action, nodes'[n].state>> ]_vars

\* more nodes have been popped than states expanded: a duplicate entry was
\* discarded
C23_DuplicateDiscarded ==
    /\ search_pc = "loop"
    /\ Len(nodes) - Cardinality(frontier) > Cardinality(explored)

\* the insertion counters of a frontier are distinct, none above the
\* counter of the search, and ordered as the nodes were pushed
CountersInPushOrder(heap, counter) ==
    \A e \in heap :
        /\ e[2] <= counter
        /\ \A o \in heap : (e[2] < o[2] <=> e[3] < o[3]) /\ (e[2] = o[2] => e = o)

\* C24: FIFO tie-break.  The frontier entries carry distinct insertion
\* counters that increase with the push order, so that two entries are
\* always ordered by f and counter alone and Node.__lt__ is not consulted;
\* the entry popped has the least f and, among the entries of that f, is
\* the one pushed first; every entry pushed gets a counter above all
\* earlier ones.
C24_FifoTieBreak ==
    [][ /\ CountersInPushOrder(frontier, tie_breaker)
        /\ CountersInPushOrder(frontier', tie_breaker')
        /\ (search_pc = "loop" /\ search_pc' = "loop") =>
               /\ \A e \in frontier \ frontier' :
                      \A o \in frontier : e[1] < o[1] \/ (e[1] = o[1] /\ e[3] <= o[3])
               /\ Cardinality(frontier \ frontier') = 1
               /\ \A e \in frontier' \ frontier : e[2] > tie_breaker /\ e[3] > Len(nodes)
        /\ (search_pc = "loop" /\ search_pc' = "done" /\ frontier # {}) =>
               \E e \in frontier :
                   /\ \A o \in frontier : e[1] < o[1] \/ (e[1] = o[1] /\ e[3] <= o[3])
                   /\ returned' = <<PathTo(e[3]), nodes[e[3]].g_cost>> ]_vars

\* the least f of the frontier is shared by two entries
C24_TieAtTheTop ==
    /\ search_pc = "loop"
    /\ \E e \in frontier, o \in frontier :
           /\ e # o
           /\ e[1] = o[1]
           /\ \A q \in frontier : e[1] <= q[1]

\* the ancestor of node n that is depth moves from the root
RECURSIVE AncestorAt(_, _)
AncestorAt(n, depth) ==
    IF nodes[n].g_cost <= depth THEN n ELSE AncestorAt(nodes[n].parent, depth)

\* the state the actions of path lead to through get_successors, from
\* state at elapsed step g; None when one of them is not offered
RECURSIVE ReplayFrom(_, _, _)
ReplayFrom(state, g, path) ==
    IF path = <<>> THEN state
    ELSE LET next_state == DictGet(get_successors(state, g), Head(path))
         IN  IF next_state = None THEN None
             ELSE ReplayFrom(next_state, g + 1, Tail(path))

\* C25: path reconstruction.  When a_star_search returns a path, its i-th
\* action is the action of the popped goal node's ancestor i moves from the
\* root, its length is the returned cost, and replaying it through
\* get_successors from the initial state at the steps 0, 1, 2, ... ends in
\* the state of the popped goal node.
C25_PathReconstruction ==
    [][ (search_pc = "loop" /\ search_pc' = "done" /\ frontier # {}) =>
            \E e \in frontier :
                /\ \A o \in frontier : e[1] < o[1] \/ (e[1] = o[1] /\ e[2] <= o[2])
                /\ LET path == returned'[1]
                       cost == returned'[2]
                   IN  /\ Len(path) = cost
                       /\ cost = nodes[e[3]].g_cost
                       /\ nodes[AncestorAt(e[3], 0)].parent = NoParent
                       /\ \A i \in 1 .. cost : path[i] = nodes[AncestorAt(e[3], i)].action
                       /\ ReplayFrom(get_initial_state, 0, path) = nodes[e[3]].state
                       /\ is_goal(nodes[e[3]].state) ]_vars

\* a path of several different actions has been returned
C25_LongPathReturned ==
    /\ search_pc = "done"
    /\ returned # None
    /\ returned[1] # NoPath
    /\ Len(returned[1]) >= 3
    /\ \E i \in 1 .. Len(returned[1]) : returned[1][i] # returned[1][1]

\* C26: teleport frame effect.  From a teleport tile, the teleport to any
\* other teleport tile of the rotation has a successor exactly when none of
\* the ghost checks on the destination rejects it, whatever the parent's
\* pie_timer and the walls; the successor of every teleport has the
\* parent's broken_walls.
C26_TeleportFrameEffect ==
    LET rot == _current_rotation(current_state.step_mod_cycle)
        teleports == problem.rotated_teleports[rot + 1]
        successors == get_successors(current_state, steps)
    IN  /\ current_state.pos \in teleports =>
               \A t \in teleports \ {current_state.pos} :
                   DictGet(successors, TeleportLabel(t)) # None
                       <=> NoGhostRejects(t, current_state.broken_walls)
        /\ \A i \in 1 .. Len(successors) :
               successors[i][1] \notin { actions[j][1] : j \in 1 .. Len(actions) } =>
                   successors[i][2].broken_walls = current_state.broken_walls

\* Pac-Man, under a pie and with a wall broken, stands on a teleport tile
\* and a teleport is offered
C26_TeleportAfterBreaking ==
    /\ current_state.broken_walls # {}
    /\ current_state.pie_timer > 0
    /\ current_state.pos \in problem.rotated_teleports[_current_rotation(current_state.step_mod_cycle) + 1]
    /\ Len(TeleportSuccessors(current_state, steps)) >= 1

\* the quarter turn of lines 14-15 on a grid of the given dimensions
QuarterTurn(pos, width, height) == <<pos[2], width - 1 - pos[1]>>

\* the quarter turn applied k times, the dimensions swapped after each
RECURSIVE QuarterTurns(_, _, _, _)
QuarterTurns(pos, k, width, height) ==
    IF k = 0 THEN pos
    ELSE QuarterTurn(QuarterTurns(pos, k - 1, width, height),
                     IF k % 2 = 1 THEN width ELSE height,
                     IF k % 2 = 1 THEN height ELSE width)

\* an empty grid of the given dimensions with Pac-Man in its corner
BlankGrid(width, height) ==
    [y \in 1 .. height |-> [x \in 1 .. width |-> IF x = 1 /\ y = 1 THEN "P" ELSE " "]]

\* C27: rotation composition.  _transform_pos(p, k, W, H) is the rotation-1
\* map applied k times, each time with the dimensions of the grid it is
\* applied to; rotation 1 of _transform_pos is that map; the rotated grid
\* is H x W for odd k and W x H for even k, as rotated_dimensions has it,
\* and the rotated tile lies inside it.
C27_RotationComposition ==
    (rot_out # None /\ rot_out.fwd # None) =>
        LET W == rot_in.width
            H == rot_in.height
            k == rot_in.k
            dims == IF k % 2 = 1 THEN <<H, W>> ELSE <<W, H>>
        IN  /\ rot_out.fwd = QuarterTurns(rot_in.pos, k, W, H)
            /\ _transform_pos(rot_in.pos, 1, W, H) = QuarterTurn(rot_in.pos, W, H)
            /\ _transform_pos(rot_in.pos, k + 4, W, H) = rot_out.fwd
            /\ _parse_layout(BlankGrid(W, H)).rotated_dimensions[k + 1] = dims
            /\ 0 <= rot_out.fwd[1] /\ rot_out.fwd[1] < dims[1]
            /\ 0 <= rot_out.fwd[2] /\ rot_out.fwd[2] < dims[2]

\* a tile of a grid that is not square was turned three times
C27_ThreeTurnsOblong ==
    /\ rot_out # None
    /\ rot_out.fwd # None
    /\ rot_in.k = 3
    /\ rot_in.width > rot_in.height + 1
    /\ rot_out.fwd # rot_in.pos

\* C28: clockwise rotation.  Rotation index 1 is a quarter turn clockwise
\* on the screen (x to the right, y downward): the base tile (x, y) of a
\* W x H grid goes to (H-1-y, x), the top-left tile to the top-right
\* corner (H-1, 0) of the rotated grid.
C28_Clockwise ==
    (rot_out # None /\ rot_out.fwd # None /\ rot_in.k = 1) =>
        /\ rot_out.fwd = <<rot_in.height - 1 - rot_in.pos[2], rot_in.pos[1]>>
        /\ rot_in.pos = <<0, 0>> => rot_out.fwd = <<rot_in.height - 1, 0>>

\* a step of the main thread: the worker's steps each change one of these
MainThreadStep == UNCHANGED <<frontier, explored, tie_breaker, nodes, returned, _search_result>>

\* C29: while a search worker is in flight, a step of the polling and
\* drawing thread inserts nothing into _ghost_pos_cache or
\* _ghost_seed_cache of the shared problem; only the worker does.
C29_NoWriteWhileSearching ==
    [][ (search_pc \in {"called", "loop", "done"} /\ search_pc' = search_pc /\ MainThreadStep)
            => UNCHANGED <<_ghost_pos_cache, _ghost_seed_cache>> ]_vars

\* C30: the successors depend on the state only; for elapsed-step counts
\* that are both congruent to s.step_mod_cycle modulo 120, here the steps
\* of the play and one whole rotation cycle later, get_successors returns
\* the same list of (action, state) pairs.
C30_SuccessorsOfStateOnly ==
    (steps % ROTATION_CYCLE = current_state.step_mod_cycle) =>
        get_successors(current_state, steps)
            = get_successors(current_state, steps + ROTATION_CYCLE)

\* C31: consistency of the heuristic.  For every reachable state s and
\* every successor s' returned by get_successors,
\* pacman_heuristic(s) <= 1 + pacman_heuristic(s'); the values are those
\* computed with nothing in the cache.
C31_Consistent ==
    \A i \in 1 .. Len(get_successors(current_state, steps)) :
        pacman_heuristic(<<>>, current_state)
            <= 1 + pacman_heuristic(<<>>, get_successors(current_state, steps)[i][2])

\* C32: success is never read as failure.  Whenever the worker has stored
\* the result of a search that found a solution (a path, the empty path of
\* an initial goal state included, and not the failure result (None, 0)),
\* the frame that polls it enters AUTO_ANIMATE and does not return to MENU.
C32_SuccessAnimated ==
    [][ ( /\ game_state = "AUTO_SEARCH"
          /\ _searching
          /\ _search_result # None
          /\ game_state' # game_state
          /\ _search_result[1] # NoPath )
            => game_state' = "AUTO_ANIMATE" ]_vars

\* the pairs (current tile, next tile) of the ghosts at the elapsed steps,
\* in the parent's rotation and under its broken walls (lines 292-300)
GhostSwapPairs ==
    { <<GhostsAt(current_state, steps)[n], GhostsAt(current_state, steps + 1)[n]>> :
          n \in 1 .. Len(GhostsAt(current_state, steps)) }

\* the tiles of the ghosts at the elapsed steps or one step later
GhostTilesNowOrNext ==
    { GhostsAt(current_state, steps)[n] : n \in 1 .. Len(GhostsAt(current_state, steps)) }
        \cup { GhostsAt(current_state, steps + 1)[n] : n \in 1 .. Len(GhostsAt(current_state, steps + 1)) }

\* a move the wall rule admits meets the swap-through condition: a ghost
\* stands on its target and comes to the agent's tile
C33_GhostComesAcross ==
    \E i \in 1 .. Len(actions) :
        /\ WallRuleAdmits(i)
        /\ <<TargetOf(i), current_state.pos>> \in GhostSwapPairs

\* C33: the swap-through check is subsumed.  Every directional or teleport
\* move whose (target, agent's tile) is a (current, next) pair of a ghost
\* has its target on a ghost's current tile, which the check before it
\* rejects; so a move that passes the bounds, the wall rule, the
\* current/next ghost check and the check after the move is returned: the
\* swap-through test rejects nothing on its own.
C33_SwapSubsumed ==
    LET rot == _current_rotation(current_state.step_mod_cycle)
        rot_next == _current_rotation((current_state.step_mod_cycle + 1) % ROTATION_CYCLE)
        teleports == problem.rotated_teleports[rot + 1]
        successors == get_successors(current_state, steps)
        labels == { successors[j][1] : j \in 1 .. Len(successors) }
        ghosts_now == { GhostsAt(current_state, steps)[n] : n \in 1 .. Len(GhostsAt(current_state, steps)) }
        TurnedOntoGhost(t) ==
            /\ rot_next # rot
            /\ _transform_pos(_inverse_transform_pos(t, rot, problem.width, problem.height),
                              rot_next, problem.width, problem.height)
                   \in { _ghost_positions_continuous(steps + 1, rot_next, current_state.broken_walls)[n] :
                           n \in 1 .. Len(problem.ghosts) }
    IN  /\ \A i \in 1 .. Len(actions) :
               /\ <<TargetOf(i), current_state.pos>> \in GhostSwapPairs => TargetOf(i) \in ghosts_now
               /\ (WallRuleAdmits(i) /\ TargetOf(i) \notin GhostTilesNowOrNext /\ LastCheckAdmits(i))
                      => actions[i][1] \in labels
        /\ \A t \in teleports :
               /\ <<t, current_state.pos>> \in GhostSwapPairs => t \in ghosts_now
               /\ ( /\ current_state.pos \in teleports
                    /\ t # current_state.pos
                    /\ t \notin GhostTilesNowOrNext
                    /\ ~TurnedOntoGhost(t) )
                      => TeleportLabel(t) \in labels

\* every two foods left are joined by a way over the effective walls and
\* the teleports of the current rotation
FoodsMutuallyReachable ==
    \A f1, f2 \in current_state.food_left :
        f2 \in DOMAIN _distance_map_effective(_current_rotation(current_state.step_mod_cycle),
                                              f1, current_state.broken_walls)

\* C34: the rotation look-ahead never lowers the estimate.  For a state
\* with pie_timer = 0 and food left, all of it mutually reachable, the
\* nearest-food distance, the spanning-tree cost and the exit tail
\* computed in the next rotation frame equal those of the current frame,
\* and pacman_heuristic returns the estimate of the current frame.
C34_LookAheadSame ==
    LET cur == _current_rotation(current_state.step_mod_cycle)
        nxt == (cur + 1) % 4
        broken == current_state.broken_walls
        pos_next == _rot_coord(current_state.pos, cur)
        foods_next == { _rot_coord(f, cur) : f \in current_state.food_left }
    IN  (current_state.pie_timer = 0 /\ current_state.food_left # {} /\ FoodsMutuallyReachable) =>
            /\ pac_to_food_next(_distance_map_effective(nxt, pos_next, broken), foods_next)
                   = _nearest_food_distance(cur, current_state)
            /\ _mst_cost(nxt, foods_next, broken) = _mst_cost(cur, current_state.food_left, broken)
            /\ _exit_tail(nxt, foods_next, broken) = _exit_tail(cur, current_state.food_left, broken)
            /\ pacman_heuristic(<<>>, current_state)
                   = _nearest_food_distance(cur, current_state)
                         + _mst_cost(cur, current_state.food_left, broken)
                         + _exit_tail(cur, current_state.food_left, broken)

\* two foods joined by a way are left in a turned oblong maze, no pie runs
\* and the estimate is positive
C34_TwoFoodsTurned ==
    /\ current_state.pie_timer = 0
    /\ Cardinality(current_state.food_left) >= 2
    /\ FoodsMutuallyReachable
    /\ _current_rotation(current_state.step_mod_cycle) = 1
    /\ problem.width # problem.height
    /\ pacman_heuristic(<<>>, current_state) > 0

\* C35: ghosts stay on open tiles.  For the elapsed steps g of the first
\* windows, with the rotation (g \div 30) % 4 and under the broken walls
\* of the state, under none and under all walls broken, every position
\* returned by _ghost_positions_continuous lies inside the rotated board
\* and on no effective wall of that rotation; the seeds of every window
\* (the positions at its first step) are such tiles too, so the branch for
\* a stuck seed is not taken.
C35_GhostsOnOpenTiles ==
    \A k \in 0 .. MaxWindows :
        \A g \in { ROTATION_PERIOD * k, ROTATION_PERIOD * k + (steps % ROTATION_PERIOD),
                   ROTATION_PERIOD * k + ROTATION_PERIOD - 1 } :
            \A bw \in { current_state.broken_walls, {}, problem.base_walls } :
                \A i \in 1 .. Len(problem.ghosts) :
                    LET at == _ghost_positions_continuous(g, k % 4, bw)[i]
                    IN  /\ 0 <= at[1] /\ at[1] < problem.rotated_dimensions[(k % 4) + 1][1]
                        /\ 0 <= at[2] /\ at[2] < problem.rotated_dimensions[(k % 4) + 1][2]
                        /\ at \notin _effective_walls(k % 4, bw)

\* past the first turn of the maze a ghost is away from its spawn tile,
\* with a wall broken
C35_GhostAwayAfterTurn ==
    /\ steps >= ROTATION_PERIOD
    /\ current_state.broken_walls # {}
    /\ \E i \in 1 .. Len(problem.ghosts) :
           _ghost_positions_continuous(steps, _current_rotation(current_state.step_mod_cycle),
                                       current_state.broken_walls)[i]
               # _transform_pos(problem.ghosts[i], _current_rotation(current_state.step_mod_cycle),
                                problem.width, problem.height)

\* C36: the agent stays on open tiles.  In every state reachable from the
\* initial state pos lies inside the board of the state's rotation and on
\* no effective wall of it (a rotated wall whose base tile is not in
\* broken_walls), and every coordinate of broken_walls is a wall of the
\* base layout.
C36_AgentOnOpenTile ==
    LET r == _current_rotation(current_state.step_mod_cycle)
        rotated_broken == { _transform_pos(b, r, problem.width, problem.height) :
                              b \in current_state.broken_walls }
    IN  /\ 0 <= current_state.pos[1] /\ current_state.pos[1] < problem.rotated_dimensions[r + 1][1]
        /\ 0 <= current_state.pos[2] /\ current_state.pos[2] < problem.rotated_dimensions[r + 1][2]
        /\ current_state.pos \notin problem.rotated_walls[r + 1] \ rotated_broken
        /\ _inverse_transform_pos(current_state.pos, r, problem.width, problem.height)
               \notin problem.base_walls \ current_state.broken_walls
        /\ current_state.broken_walls \subseteq problem.base_walls

\* in the turned maze, on a grid that is not square, the agent stands on a
\* tile whose wall it has broken, next to a wall that is left
C36_OnBrokenWallTurned ==
    /\ _current_rotation(current_state.step_mod_cycle) = 1
    /\ problem.width # problem.height
    /\ current_state.pos \in problem.rotated_walls[2]
    /\ current_state.broken_walls # problem.base_walls

\* C37: polling liveness.  Once the worker started in AUTO_SEARCH has
\* written its result, with frames continuing to run the game leaves
\* AUTO_SEARCH with _searching reset: it reaches AUTO_ANIMATE when a path
\* was found and MENU when none was.
C37_PollingLiveness ==
    /\ (PollEnabled /\ _search_result[1] # NoPath) ~> (game_state = "AUTO_ANIMATE" /\ ~_searching)
    /\ (PollEnabled /\ _search_result[1] = NoPath) ~> (game_state = "MENU" /\ ~_searching)

====
